---- MODULE Spec2Model ----
(***************************************************************************)
(* Model of the cachem client connection pool (src/cachem/src/pool.rs) and *)
(* of the guard that hands its connections out                             *)
(* (src/cachem/src/connection.rs).                                         *)
(*                                                                         *)
(* The pool is shared by any number of tasks on a multi-threaded runtime,  *)
(* so every atomic load/store, every critical section of the connections   *)
(* mutex and every await is a step of its own.                             *)
(***************************************************************************)
EXTENDS Integers, Sequences, FiniteSets, TLC

\* ---------------------------------------------------------------- bounds
\* number of client tasks that use the pool concurrently
NumCallers == 2
\* largest `count` given to ConnectionPool::new
MaxPoolSize == 2
\* number of TCP connections that are opened over the whole run
MaxConns == 2

\* ------------------------------------------------------------- constants
\* AtomicUsize wraps; usize is modelled at the width of Rust's 16-bit
\* targets so that the wrap-around is a value TLC can hold.
UsizeModulus == 65536

Callers == 1 .. NumCallers
ConnIds == 1 .. MaxConns
\* Option::None of a popped connection
None == 0

VARIABLES
    available,      \* ConnectionPool.available    (AtomicUsize)
    pool_size,      \* ConnectionPool.pool_size    (AtomicUsize)
    has_dead_con,   \* ConnectionPool.has_dead_con (AtomicBool)
    connections,    \* ConnectionPool.connections  (Mutex<VecDeque<Connection>>)
    guards,         \* guards[c]: number of live ConnectionGuards that wrap c
    pc,             \* pc[p]: where task p stands inside a pool operation
    con,            \* con[p]: the local `con` of the try_acquire p runs
    returned,       \* what the last step returned to its caller (NoResult: nothing)
    rpc,            \* position of the reconnect task
    ri,             \* reconnect task: opens left in the `for _ in 0..pool_size`
    dead,           \* reconnect task: the local `dead` of the iteration
    broken,         \* connections whose socket no longer carries I/O
    nextId,         \* identity of the next connection that is opened
    dead_con,       \* v2 ConnectionPool.dead_con (AtomicUsize)
    scale_count,    \* scale_count[p]: the `count` argument of the scale_up/scale_down p runs
    opened,         \* opened[p]: the local `connections` of the scale_up p runs
    wire,           \* server socket: bytes the client sent that were not read yet
    rbuf,           \* the bytes the read buffer of the current BufStream may hold
    wbuf,           \* write buffer of that BufStream (not flushed yet)
    reply,          \* bytes flushed to the client that the client did not read yet
    spc,            \* position of the connection's task inside listen_tcp
    cmd,            \* listen_tcp: the Command of the request being served
    cache,          \* listen_tcp: the namespace byte of the request being served
    store,          \* ACache.cache: the value stored under each key
    signals,        \* number of signals sent on the control channel
    cpc,            \* what the client of the connection is waiting for
    sent,           \* number of requests the client has issued
    watch,          \* the value the control channel (tokio watch) holds
    registry,       \* Server.entries while a server is set up: id -> namespace
    value,          \* codec: the value that is written
    buf,            \* codec: the bytes of the buffer that is written and read
    decoded,        \* codec: what the last read returned
    ids,            \* Get2::mget: the argument `ids`
    result,         \* Get2::mget: the local `result`
    mi,             \* Get2::mget: number of ids the `for` loop has taken
    mpc,            \* position of the task that calls mget
    listeners       \* the tasks listen_cnc has spawned: id -> position, version seen

vars == <<available, pool_size, has_dead_con, connections, guards, pc, con,
          returned, rpc, ri, dead, broken, nextId, dead_con, scale_count, opened,
          wire, rbuf, wbuf, reply, spc, cmd, cache, store, signals, cpc, sent,
          watch, registry, value, buf, decoded, ids, result, mi, mpc,
          listeners>>

poolVars == <<available, pool_size, has_dead_con, connections>>
taskVars == <<guards, pc, con>>
reconnectVars == <<rpc, ri, dead>>
netVars == <<broken, nextId>>
\* what only the v2 pool (src/cachem/src/v2/pool.rs) has
scaleVars == <<dead_con, scale_count, opened>>
\* the server side of one connection, and its client
serverVars ==
    <<wire, rbuf, wbuf, reply, spc, cmd, cache, store, signals, cpc, sent, watch>>
\* the set-up of a server (Server::new, Server::add)
setupVars == <<registry>>
\* a value, the buffer it is written to and what is read back (wrapper.rs)
codecVars == <<value, buf, decoded>>
\* a call of Get2::mget on ACache (traits.rs)
getVars == <<ids, result, mi, mpc>>
\* the listener tasks of the control channel (Server::listen_cnc)
cncVars == <<listeners>>

\* ---------------------------------------------------------------- helpers
\* (variant: the addition is lost)
fetch_add_lost(x, n) == x
\* AtomicUsize::fetch_add / fetch_sub: wrapping arithmetic
fetch_add(x, n) == (x + n) % UsizeModulus
fetch_sub(x, n) == (x - n + UsizeModulus) % UsizeModulus

\* VecDeque::pop_front: the popped element (None on an empty queue) ...
pop_front(q) == IF q = <<>> THEN None ELSE Head(q)
\* (variant: the front connection is read but stays in the queue)
pop_front_rest_peek(q) == q
\* ... and what stays in the queue
pop_front_rest(q) == IF q = <<>> THEN q ELSE Tail(q)

\* (variant: the connection is pushed to the front)
push_back_front(q, c) == <<c>> \o q
\* VecDeque::push_back
push_back(q, c) == Append(q, c)

\* the connections resident in a queue
InQueue(q) == {q[i] : i \in 1 .. Len(q)}

\* connection c is open: queued, local to a try_acquire or to a scale_up, or
\* wrapped by a guard
IsOpen(c) ==
    \/ guards[c] > 0
    \/ \E i \in 1 .. Len(connections) : connections[i] = c
    \/ \E p \in Callers : con[p] = c
    \/ \E p \in Callers : \E i \in 1 .. Len(opened[p]) : opened[p][i] = c

\* the connections that are open
Open == {c \in ConnIds : IsOpen(c)}

\* the number of places that own connection c
Places(c) == Cardinality({i \in 1 .. Len(connections) : connections[i] = c})
                + guards[c] + Cardinality({p \in Callers : con[p] = c})

\* a connection that was opened and has been dropped (its socket is closed)
Closed(c) == c < nextId /\ ~IsOpen(c)

\* a value returned to the caller, with the source line that returns it
Ret(v, l) == [val |-> v, line |-> l]
NoResult == Ret("none", 0)
\* the value a command returns, with the connection it ran on
CommandRet(v, l, c) == [val |-> v, line |-> l, con |-> c]

\* the value a scale_down returns, with the `count` it was called with
ScaleRet(v, l, k) == [val |-> v, line |-> l, count |-> k]

\* Connection::ping: an error of the write or flush is Err, an error of the
\* read is Ok(false), any byte read is Ok(true).
ping(c) == IF c \in broken THEN {"Err", "Ok_false"} ELSE {"Ok_true"}

\* (variant: matches!(self.ping().await, Ok(_)))
is_healthy_any_ok(outcome) == outcome \in {"Ok_true", "Ok_false"}
\* Connection::is_healthy: matches!(self.ping().await, Ok(true))
is_healthy(outcome) == outcome = "Ok_true"

\* ----------------------------------------------------------- server state
\* enum Command in the order of its byte values 0 .. 9 (command.rs)
Commands ==
    <<"Get", "MGet", "Keys", "Exists", "MExists", "Set", "MSet", "Del", "MDel",
      "Save">>

\* A decoding that knows the ten cache commands only.
CommandFrom_noping(x) ==
    IF x \in 0 .. 9 THEN Commands[x + 1]
    ELSE "Pong"

\* impl From<u8> for Command: every byte that is no command is Pong
CommandFrom(x) ==
    IF x \in 0 .. 9 THEN Commands[x + 1]
    ELSE IF x = 254 THEN "Ping"
    ELSE "Pong"

\* impl From<Command> for u8
CommandInto(c) ==
    IF c = "Ping" THEN 254
    ELSE IF c = "Pong" THEN 255
    ELSE CHOOSE x \in 0 .. 9 : Commands[x + 1] = c

\* impl Into<u8> for CacheName (example/src/lib.rs)
CacheNameInto(n) ==
    IF n = "A" THEN 0
    ELSE IF n = "B" THEN 1
    ELSE 255

\* the namespaces the client names: ACache is registered under CacheName::A,
\* nothing is registered under CacheName::B, and Server::new registers the
\* control namespace under 255
CacheNames == {"A", "B", "CommandAndControl"}

\* Server.entries after Server::new and add(CacheName::A, ..) (example main)
entries == {255, CacheNameInto("A")}

\* write_u32 / read_u32: four bytes, most significant first. A u32 is kept
\* as the pair <<high, low>> of its two 16-bit halves (the integers of TLC
\* end at 2^31 - 1).
U32(v) == <<v[1] \div 256, v[1] % 256, v[2] \div 256, v[2] % 256>>

FromU32(b) == <<b[1] * 256 + b[2], b[3] * 256 + b[4]>>

\* write_u64 / read_u64: eight bytes, most significant first; a u64 is kept
\* as the pair of its two 32-bit halves
U64(v) == U32(v[1]) \o U32(v[2])

FromU64(b) == <<FromU32(SubSeq(b, 1, 4)), FromU32(SubSeq(b, 5, 8))>>

\* a small number as u32 and as u64
AsU32(n) == <<0, n>>
AsU64(n) == <<AsU32(0), AsU32(n)>>

\* #[derive(Parse)] struct ACacheVal { field_a: u32, field_b: u64 }: the
\* fields one after the other
ACacheValWrite(v) == U32(v.field_a) \o U64(v.field_b)

ACacheValRead(b) ==
    [field_a |-> FromU32(SubSeq(b, 1, 4)), field_b |-> FromU64(SubSeq(b, 5, 12))]

\* impl Parse for Option<T>, write: the bool byte, then the value if any
\* (an Option is the empty sequence or the one-element sequence of its value)
OptionWrite(o) == IF o = <<>> THEN <<0>> ELSE <<1>> \o ACacheValWrite(o[1])

\* the keys and the value the client uses: one key that ACache::new inserts
\* and one that it does not
Idxs == {AsU32(0), AsU32(3)}
Vals == {[field_a |-> AsU32(7), field_b |-> AsU64(7)]}

\* ACache::new: the three entries the cache starts with
ACacheNew ==
    [idx \in {AsU32(0), AsU32(1), AsU32(2)} |->
        [field_a |-> AsU32(idx[2] + 1), field_b |-> AsU64(idx[2] + 2)]]

\* a connection has just been accepted: its task is about to read the first
\* opcode, nothing is on the wire; ACache::new has filled the cache.
ServerInit ==
    /\ wire = <<>>
    /\ rbuf = <<>>
    /\ wbuf = <<>>
    /\ reply = <<>>
    /\ spc = "read_cmd"
    /\ cmd = "Pong"
    /\ cache = -1                 \* no namespace byte was read yet
    /\ store = ACacheNew
    /\ signals = 0
    /\ watch = "Ping"             \* watch::channel(Command::Ping), server.rs:29
    /\ cpc = "idle"
    /\ sent = 0

\* Server::new (server.rs:28-41): the map holds the control namespace under
\* 255 and nothing else
ServerNew == [id \in {255} |-> "CommandAndControl"]

SetupInit == registry = ServerNew

\* nothing was written and nothing was read
CodecInit ==
    /\ value = <<>>
    /\ buf = <<>>
    /\ decoded = [t |-> "", state |-> "none", val |-> "", input |-> <<>>]

\* no call of mget was made yet
MgetInit ==
    /\ ids = <<>>
    /\ result = <<>>
    /\ mi = 0
    /\ mpc = "idle"

\* listen_cnc was not called yet
CncInit == listeners = <<>>

\* ------------------------------------------------------------------- Init
\* ConnectionPool::new(url, count): both counters are count, the flag is
\* clear, count connections are queued and the reconnect task is spawned.
Init ==
    /\ \E count \in 0 .. MaxPoolSize :
        /\ available = count
        /\ pool_size = count
        /\ connections = [i \in 1 .. count |-> i]
        /\ nextId = count + 1
    /\ has_dead_con = FALSE
    /\ guards = [c \in ConnIds |-> 0]
    /\ pc = [p \in Callers |-> "idle"]
    /\ con = [p \in Callers |-> None]
    /\ returned = NoResult
    /\ rpc = "load"
    /\ ri = 0
    /\ dead = FALSE
    /\ broken = {}
    /\ dead_con = 0
    /\ scale_count = [p \in Callers |-> 0]
    /\ opened = [p \in Callers |-> <<>>]
    /\ ServerInit
    /\ SetupInit
    /\ CodecInit
    /\ MgetInit
    /\ CncInit

\* ------------------------------------------------------------ try_acquire
\* (variant: the call does not look at has_dead_con)
TryAcquire_nogate(p) ==
    /\ pc[p] = "idle"
    /\ available <= MaxConns
    /\ returned' = NoResult
    /\ pc' = [pc EXCEPT ![p] = "check_available"]
    /\ UNCHANGED <<poolVars, guards, con, reconnectVars, netVars>>
    /\ UNCHANGED <<scaleVars, serverVars, setupVars, codecVars,
                   getVars, cncVars>>

\* try_acquire, first statement: the dead-marker gate.  The call is either a
\* direct one or the try_acquire branch of acquire's select!.  No call is
\* started once `available` has wrapped around, which keeps the counter bounded.
TryAcquire(p) ==
    /\ pc[p] = "idle"
    /\ available <= MaxConns
    /\ IF has_dead_con
         THEN /\ returned' = Ret("NoConnectionAvailable", 133)
              /\ pc' = pc
         ELSE /\ returned' = NoResult
              /\ pc' = [pc EXCEPT ![p] = "check_available"]
    /\ UNCHANGED <<poolVars, guards, con, reconnectVars, netVars>>
    /\ UNCHANGED <<scaleVars, serverVars, setupVars, codecVars,
                   getVars, cncVars>>

\* try_acquire: the load of `available` outside the lock
CheckAvailable(p) ==
    /\ pc[p] = "check_available"
    /\ IF available = 0
         THEN /\ returned' = Ret("NoConnectionAvailable", 140)
              /\ pc' = [pc EXCEPT ![p] = "idle"]
         ELSE /\ returned' = NoResult
              /\ pc' = [pc EXCEPT ![p] = "pop_front"]
    /\ UNCHANGED <<poolVars, guards, con, reconnectVars, netVars>>
    /\ UNCHANGED <<scaleVars, serverVars, setupVars, codecVars,
                   getVars, cncVars>>

\* try_acquire: { self.connections.lock().unwrap() }.pop_front()
PopFront(p) ==
    /\ pc[p] = "pop_front"
    /\ con' = [con EXCEPT ![p] = pop_front(connections)]
    /\ connections' = pop_front_rest(connections)
    /\ pc' = [pc EXCEPT ![p] = "fetch_sub"]
    /\ returned' = NoResult
    /\ UNCHANGED <<available, pool_size, has_dead_con, guards,
                   reconnectVars, netVars>>
    /\ UNCHANGED <<scaleVars, serverVars, setupVars, codecVars,
                   getVars, cncVars>>

\* try_acquire: self.available.fetch_sub(1), whatever the pop returned,
\* then the `if let Some(mut con) = con ... else`
FetchSub(p) ==
    /\ pc[p] = "fetch_sub"
    /\ available' = fetch_sub(available, 1)
    /\ IF con[p] = None
         THEN /\ returned' = Ret("NoConnectionAvailable", 155)
              /\ pc' = [pc EXCEPT ![p] = "idle"]
         ELSE /\ returned' = NoResult
              /\ pc' = [pc EXCEPT ![p] = "probe"]
    /\ UNCHANGED <<pool_size, has_dead_con, connections, guards, con,
                   reconnectVars, netVars>>
    /\ UNCHANGED <<scaleVars, serverVars, setupVars, codecVars,
                   getVars, cncVars>>

\* (variant: an unhealthy connection is dropped without has_dead_con.store(true))
Probe_nomark(p) ==
    /\ pc[p] = "probe"
    /\ \E outcome \in ping(con[p]) :
        IF is_healthy(outcome)
          THEN /\ guards' = [guards EXCEPT ![con[p]] = @ + 1]
               /\ returned' = Ret("Guard", 148)
          ELSE /\ returned' = Ret("CannotConnect", 152)
               /\ UNCHANGED guards
    /\ con' = [con EXCEPT ![p] = None]
    /\ pc' = [pc EXCEPT ![p] = "idle"]
    /\ UNCHANGED <<poolVars, reconnectVars, netVars>>
    /\ UNCHANGED <<scaleVars, serverVars, setupVars, codecVars,
                   getVars, cncVars>>

\* try_acquire: con.is_healthy().await resolves; a healthy connection is
\* wrapped in a guard, otherwise the flag is set and `con` goes out of scope.
Probe(p) ==
    /\ pc[p] = "probe"
    /\ \E outcome \in ping(con[p]) :
        IF is_healthy(outcome)
          THEN /\ guards' = [guards EXCEPT ![con[p]] = @ + 1]
               /\ returned' = Ret("Guard", 148)
               /\ UNCHANGED <<has_dead_con>>
          ELSE /\ has_dead_con' = TRUE
               /\ returned' = Ret("CannotConnect", 152)
               /\ UNCHANGED guards
    /\ con' = [con EXCEPT ![p] = None]
    /\ pc' = [pc EXCEPT ![p] = "idle"]
    /\ UNCHANGED <<available, pool_size, connections, reconnectVars, netVars>>
    /\ UNCHANGED <<scaleVars, serverVars, setupVars, codecVars,
                   getVars, cncVars>>

\* acquire: the sleep branch of select! wins while try_acquire is suspended
\* in is_healthy().await; the try_acquire future is dropped with its `con`.
Timeout(p) ==
    /\ pc[p] = "probe"
    /\ con' = [con EXCEPT ![p] = None]
    /\ returned' = Ret("TimeoutGettingConnection", 113)
    /\ pc' = [pc EXCEPT ![p] = "idle"]
    /\ UNCHANGED <<poolVars, guards, reconnectVars, netVars>>
    /\ UNCHANGED <<scaleVars, serverVars, setupVars, codecVars,
                   getVars, cncVars>>

\* ------------------------------------------------------- commands on a guard
\* A command issued through a guard (Connection::set and its siblings): every
\* write, flush and read ends in `?`, so an I/O or decode error is returned
\* to the caller; the Connection holds no reference to the pool, and the
\* guard keeps the connection.
Command(p, c) ==
    /\ pc[p] = "idle"
    /\ guards[c] > 0
    /\ \E r \in (IF c \in broken THEN {"IoError"} ELSE {"Ok", "StringParseError"}) :
        returned' = CommandRet(r, IF r = "Ok" THEN 317 ELSE 316, c)
    /\ UNCHANGED <<poolVars, guards, pc, con, reconnectVars, netVars>>
    /\ UNCHANGED <<scaleVars, serverVars, setupVars, codecVars,
                   getVars, cncVars>>

\* ------------------------------------------------------------ guard release
\* Drop for ConnectionGuard -> ConnectionPool::release, first statement:
\* self.connections.lock().unwrap().push_back(connection)
ReleasePush(p, c) ==
    /\ pc[p] = "idle"
    /\ guards[c] > 0
    /\ guards' = [guards EXCEPT ![c] = @ - 1]
    /\ connections' = push_back(connections, c)
    /\ pc' = [pc EXCEPT ![p] = "release_fetch_add"]
    /\ returned' = NoResult
    /\ UNCHANGED <<available, pool_size, has_dead_con, con,
                   reconnectVars, netVars>>
    /\ UNCHANGED <<scaleVars, serverVars, setupVars, codecVars,
                   getVars, cncVars>>

\* ConnectionPool::release, second statement: self.available.fetch_add(1)
ReleaseFetchAdd(p) ==
    /\ pc[p] = "release_fetch_add"
    /\ available' = fetch_add(available, 1)
    /\ pc' = [pc EXCEPT ![p] = "idle"]
    /\ returned' = NoResult
    /\ UNCHANGED <<pool_size, has_dead_con, connections, guards, con,
                   reconnectVars, netVars>>
    /\ UNCHANGED <<scaleVars, serverVars, setupVars, codecVars,
                   getVars, cncVars>>

\* ----------------------------------------------------------- reconnect task
\* reconnect_task: let dead = has_dead_con.load(); if dead { ... }
ReconnectLoad ==
    /\ rpc = "load"
    /\ rpc' = IF has_dead_con THEN "drop_all" ELSE "clear"
    /\ returned' = NoResult
    /\ dead' = has_dead_con
    /\ UNCHANGED <<poolVars, taskVars, ri, netVars>>
    /\ UNCHANGED <<scaleVars, serverVars, setupVars, codecVars,
                   getVars, cncVars>>

\* ConnectionPool::drop_all, which empties the queue under one hold of the
\* lock with one fetch_sub per connection, followed by the load of pool_size
\* that bounds the re-open loop.
drop_all ==
    /\ rpc = "drop_all"
    /\ available' = fetch_sub(available, Len(connections))
    /\ connections' = <<>>
    /\ ri' = pool_size
    /\ UNCHANGED dead
    /\ rpc' = IF pool_size = 0 THEN "clear" ELSE "connect"
    /\ returned' = NoResult
    /\ UNCHANGED <<pool_size, has_dead_con, taskVars, netVars>>
    /\ UNCHANGED <<scaleVars, serverVars, setupVars, codecVars,
                   getVars, cncVars>>

\* reconnect_task: one `if let Ok(con) = self_copy.connect().await` that
\* succeeds, and the push_back under the lock
ConnectOk ==
    /\ rpc = "connect"
    /\ nextId <= MaxConns
    /\ connections' = push_back(connections, nextId)
    /\ nextId' = nextId + 1
    /\ rpc' = "fetch_add"
    /\ returned' = NoResult
    /\ UNCHANGED <<available, pool_size, has_dead_con, taskVars, ri, dead, broken>>
    /\ UNCHANGED <<scaleVars, serverVars, setupVars, codecVars,
                   getVars, cncVars>>

\* reconnect_task: a connect() that fails (the server does not accept) ends
\* the iteration
ConnectErr ==
    /\ rpc = "connect"
    /\ ri' = ri - 1
    /\ UNCHANGED dead
    /\ rpc' = IF ri = 1 THEN "clear" ELSE "connect"
    /\ returned' = NoResult
    /\ UNCHANGED <<poolVars, taskVars, netVars>>
    /\ UNCHANGED <<scaleVars, serverVars, setupVars, codecVars,
                   getVars, cncVars>>

\* reconnect_task: self_copy.available.fetch_add(1) ends the iteration
ReconnectFetchAdd ==
    /\ rpc = "fetch_add"
    /\ available' = fetch_add(available, 1)
    /\ ri' = ri - 1
    /\ UNCHANGED dead
    /\ rpc' = IF ri = 1 THEN "clear" ELSE "connect"
    /\ returned' = NoResult
    /\ UNCHANGED <<pool_size, has_dead_con, connections, taskVars, netVars>>
    /\ UNCHANGED <<scaleVars, serverVars, setupVars, codecVars,
                   getVars, cncVars>>

\* reconnect_task: has_dead_con.store(false) of every iteration, then the
\* sleep of CHECK_CONNECTIONS_MSEC; the local `dead` ends with the iteration
ClearDead ==
    /\ rpc = "clear"
    /\ has_dead_con' = FALSE
    /\ rpc' = "load"
    /\ returned' = NoResult
    /\ dead' = FALSE
    /\ UNCHANGED <<available, pool_size, connections, taskVars, ri, netVars>>
    /\ UNCHANGED <<scaleVars, serverVars, setupVars, codecVars,
                   getVars, cncVars>>

\* -------------------------------------------------------------- environment
\* the server or the network goes away: every socket opened so far stops
\* carrying I/O.  Whether a later TcpStream::connect succeeds is left open
\* (ConnectOk, ConnectErr).
Kill ==
    /\ broken # 1 .. (nextId - 1)
    /\ broken' = 1 .. (nextId - 1)
    /\ returned' = NoResult
    /\ UNCHANGED <<poolVars, taskVars, reconnectVars, nextId>>
    /\ UNCHANGED <<scaleVars, serverVars, setupVars, codecVars,
                   getVars, cncVars>>

Next ==
    \/ \E p \in Callers : TryAcquire(p)
    \/ \E p \in Callers : CheckAvailable(p)
    \/ \E p \in Callers : PopFront(p)
    \/ \E p \in Callers : FetchSub(p)
    \/ \E p \in Callers : Probe(p)
    \/ \E p \in Callers : Timeout(p)
    \/ \E p \in Callers, c \in ConnIds : Command(p, c)
    \/ \E p \in Callers, c \in ConnIds : ReleasePush(p, c)
    \/ \E p \in Callers : ReleaseFetchAdd(p)
    \/ ReconnectLoad
    \/ drop_all
    \/ ConnectOk
    \/ ConnectErr
    \/ ReconnectFetchAdd
    \/ ClearDead
    \/ Kill

Spec == Init /\ [][Next]_vars

\* ------------------------------------------------------- v2 pool: try_acquire
\* the connections mutex is held by the reconnect task from its push_back to
\* the end of the `if let` block
LockFree == rpc \notin {"v2_dead_sub", "v2_fetch_add"}

\* no counter of the pool has wrapped around.  No v2 operation is started
\* once one has, which keeps the counters bounded.
NotWrapped == available <= MaxConns /\ pool_size <= MaxConns

\* v2 try_acquire: the load of `available`
V2TryAcquire(p) ==
    /\ pc[p] = "idle"
    /\ NotWrapped
    /\ IF available = 0
         THEN /\ returned' = Ret("NoConnectionAvailable", 126)
              /\ pc' = pc
         ELSE /\ returned' = NoResult
              /\ pc' = [pc EXCEPT ![p] = "v2_pop_front"]
    /\ UNCHANGED <<poolVars, guards, con, reconnectVars, netVars, scaleVars,
                   serverVars, setupVars, codecVars,
                   getVars, cncVars>>

\* v2 try_acquire: { self.connections.lock().unwrap() }.pop_front() and the
\* `if let Some(mut con) = con ... else`
V2PopFront(p) ==
    /\ pc[p] = "v2_pop_front"
    /\ LockFree
    /\ con' = [con EXCEPT ![p] = pop_front(connections)]
    /\ connections' = pop_front_rest(connections)
    /\ IF connections = <<>>
         THEN /\ returned' = Ret("NoConnectionAvailable", 146)
              /\ pc' = [pc EXCEPT ![p] = "idle"]
         ELSE /\ returned' = NoResult
              /\ pc' = [pc EXCEPT ![p] = "v2_probe"]
    /\ UNCHANGED <<available, pool_size, has_dead_con, guards, reconnectVars,
                   netVars, scaleVars, serverVars, setupVars, codecVars,
                   getVars, cncVars>>

\* v2 try_acquire: con.is_healthy().await resolves
V2Probe(p) ==
    /\ pc[p] = "v2_probe"
    /\ \E outcome \in ping(con[p]) :
          pc' = [pc EXCEPT ![p] = IF is_healthy(outcome) THEN "v2_guard"
                                                        ELSE "v2_connect"]
    /\ returned' = NoResult
    /\ UNCHANGED <<poolVars, guards, con, reconnectVars, netVars, scaleVars,
                   serverVars, setupVars, codecVars,
                   getVars, cncVars>>

\* v2 try_acquire: self.connect().await succeeds; the new connection takes
\* the place of the unhealthy one
V2ConnectOk(p) ==
    /\ pc[p] = "v2_connect"
    /\ nextId <= MaxConns
    /\ con' = [con EXCEPT ![p] = nextId]
    /\ nextId' = nextId + 1
    /\ pc' = [pc EXCEPT ![p] = "v2_guard"]
    /\ returned' = NoResult
    /\ UNCHANGED <<poolVars, guards, reconnectVars, broken, scaleVars,
                   serverVars, setupVars, codecVars,
                   getVars, cncVars>>

\* v2 try_acquire: self.connect().await fails
V2ConnectErr(p) ==
    /\ pc[p] = "v2_connect"
    /\ pc' = [pc EXCEPT ![p] = "v2_fetch_sub"]
    /\ returned' = NoResult
    /\ UNCHANGED <<poolVars, guards, con, reconnectVars, netVars, scaleVars,
                   serverVars, setupVars, codecVars,
                   getVars, cncVars>>

\* v2 try_acquire: available.fetch_sub(1) and Ok(ConnectionGuard::new(..))
V2Guard(p) ==
    /\ pc[p] = "v2_guard"
    /\ available' = fetch_sub(available, 1)
    /\ guards' = [guards EXCEPT ![con[p]] = @ + 1]
    /\ con' = [con EXCEPT ![p] = None]
    /\ pc' = [pc EXCEPT ![p] = "idle"]
    /\ returned' = Ret("Guard", 134)
    /\ UNCHANGED <<pool_size, has_dead_con, connections, reconnectVars,
                   netVars, scaleVars, serverVars, setupVars, codecVars,
                   getVars, cncVars>>

\* v2 try_acquire, no connection could be opened: available.fetch_sub(1)
V2FetchSub(p) ==
    /\ pc[p] = "v2_fetch_sub"
    /\ available' = fetch_sub(available, 1)
    /\ pc' = [pc EXCEPT ![p] = "v2_dead_con"]
    /\ returned' = NoResult
    /\ UNCHANGED <<pool_size, has_dead_con, connections, guards, con,
                   reconnectVars, netVars, scaleVars, serverVars, setupVars, codecVars,
                   getVars, cncVars>>

\* v2 try_acquire: dead_con.fetch_add(1), Err(CannotConnect); `con` is dropped
V2DeadCon(p) ==
    /\ pc[p] = "v2_dead_con"
    /\ dead_con' = fetch_add(dead_con, 1)
    /\ con' = [con EXCEPT ![p] = None]
    /\ pc' = [pc EXCEPT ![p] = "idle"]
    /\ returned' = Ret("CannotConnect", 142)
    /\ UNCHANGED <<poolVars, guards, reconnectVars, netVars, scale_count,
                   opened, serverVars, setupVars, codecVars,
                   getVars, cncVars>>

\* v2 acquire (v2/pool.rs:106-118): the sleep branch of select! wins while
\* try_acquire is suspended in is_healthy().await or in connect().await; the
\* try_acquire future is dropped with its `con`.
V2Timeout(p) ==
    /\ pc[p] \in {"v2_probe", "v2_connect"}
    /\ con' = [con EXCEPT ![p] = None]
    /\ returned' = Ret("TimeoutGettingConnection", 112)
    /\ pc' = [pc EXCEPT ![p] = "idle"]
    /\ UNCHANGED <<poolVars, guards, reconnectVars, netVars, scaleVars,
                   serverVars, setupVars, codecVars,
                   getVars, cncVars>>

\* ---------------------------------------------------------- v2 pool: scale_up
\* scale_up(count): let mut connections = VecDeque::new()
scale_up(p, k) ==
    /\ pc[p] = "idle"
    /\ NotWrapped
    /\ scale_count' = [scale_count EXCEPT ![p] = k]
    /\ opened' = [opened EXCEPT ![p] = <<>>]
    /\ pc' = [pc EXCEPT ![p] = "scale_up_connect"]
    /\ returned' = NoResult
    /\ UNCHANGED <<poolVars, guards, con, reconnectVars, netVars, dead_con,
                   serverVars, setupVars, codecVars,
                   getVars, cncVars>>

\* scale_up: one connections.push_back(self.connect().await?) that succeeds
ScaleUpConnectOk(p) ==
    /\ pc[p] = "scale_up_connect"
    /\ nextId <= MaxConns
    /\ opened' = [opened EXCEPT ![p] = push_back(@, nextId)]
    /\ nextId' = nextId + 1
    /\ pc' = [pc EXCEPT ![p] = IF Len(opened[p]) + 1 = scale_count[p]
                                 THEN "scale_up_extend"
                                 ELSE "scale_up_connect"]
    /\ returned' = NoResult
    /\ UNCHANGED <<poolVars, guards, con, reconnectVars, broken, dead_con,
                   scale_count, serverVars, setupVars, codecVars,
                   getVars, cncVars>>

\* (variant: what was opened so far is put into the queue before the error
\* is returned)
ScaleUpConnectErr_leak(p) ==
    /\ pc[p] = "scale_up_connect"
    /\ connections' = connections \o opened[p]
    /\ opened' = [opened EXCEPT ![p] = <<>>]
    /\ scale_count' = [scale_count EXCEPT ![p] = 0]
    /\ pc' = [pc EXCEPT ![p] = "idle"]
    /\ returned' = Ret("CannotConnect", 154)
    /\ UNCHANGED <<available, pool_size, has_dead_con, guards, con,
                   reconnectVars, netVars, dead_con, serverVars, setupVars, codecVars,
                   getVars, cncVars>>

\* scale_up: a connect() fails, `?` returns the error and the local
\* `connections` is dropped with what it holds
ScaleUpConnectErr(p) ==
    /\ pc[p] = "scale_up_connect"
    /\ opened' = [opened EXCEPT ![p] = <<>>]
    /\ scale_count' = [scale_count EXCEPT ![p] = 0]
    /\ pc' = [pc EXCEPT ![p] = "idle"]
    /\ returned' = Ret("CannotConnect", 154)
    /\ UNCHANGED <<poolVars, guards, con, reconnectVars, netVars, dead_con,
                   serverVars, setupVars, codecVars,
                   getVars, cncVars>>

\* scale_up: self.connections.lock().unwrap().extend(connections)
ScaleUpExtend(p) ==
    /\ pc[p] = "scale_up_extend"
    /\ LockFree
    /\ connections' = connections \o opened[p]
    /\ opened' = [opened EXCEPT ![p] = <<>>]
    /\ pc' = [pc EXCEPT ![p] = "scale_up_pool_size"]
    /\ returned' = NoResult
    /\ UNCHANGED <<available, pool_size, has_dead_con, guards, con,
                   reconnectVars, netVars, dead_con, scale_count, serverVars, setupVars, codecVars,
                   getVars, cncVars>>

\* scale_up: self.pool_size.fetch_add(count)
ScaleUpPoolSize(p) ==
    /\ pc[p] = "scale_up_pool_size"
    /\ pool_size' = fetch_add(pool_size, scale_count[p])
    /\ pc' = [pc EXCEPT ![p] = "scale_up_available"]
    /\ returned' = NoResult
    /\ UNCHANGED <<available, has_dead_con, connections, guards, con,
                   reconnectVars, netVars, scaleVars, serverVars, setupVars, codecVars,
                   getVars, cncVars>>

\* scale_up: self.available.fetch_add(count); Ok(())
ScaleUpAvailable(p) ==
    /\ pc[p] = "scale_up_available"
    /\ available' = fetch_add(available, scale_count[p])
    /\ scale_count' = [scale_count EXCEPT ![p] = 0]
    /\ pc' = [pc EXCEPT ![p] = "idle"]
    /\ returned' = Ret("Ok", 161)
    /\ UNCHANGED <<pool_size, has_dead_con, connections, guards, con,
                   reconnectVars, netVars, dead_con, opened, serverVars, setupVars, codecVars,
                   getVars, cncVars>>

\* -------------------------------------------------------- v2 pool: scale_down
\* scale_down(count): if self.pool_size.load() < count
scale_down(p, k) ==
    /\ pc[p] = "idle"
    /\ NotWrapped
    /\ IF pool_size < k
         THEN /\ returned' = ScaleRet("NotEnoughConnectionsInPool", 169, k)
              /\ UNCHANGED <<pc, scale_count>>
         ELSE /\ returned' = NoResult
              /\ scale_count' = [scale_count EXCEPT ![p] = k]
              /\ pc' = [pc EXCEPT ![p] = "scale_down_available"]
    /\ UNCHANGED <<poolVars, guards, con, reconnectVars, netVars, dead_con,
                   opened, serverVars, setupVars, codecVars,
                   getVars, cncVars>>

\* (variant: the check of `available` is missing)
ScaleDownCheckAvailable_skip(p) ==
    /\ pc[p] = "scale_down_available"
    /\ returned' = NoResult
    /\ pc' = [pc EXCEPT ![p] = "scale_down_sub_pool_size"]
    /\ UNCHANGED <<poolVars, guards, con, reconnectVars, netVars, scaleVars,
                   serverVars, setupVars, codecVars,
                   getVars, cncVars>>

\* scale_down: else if self.available.load() < count
ScaleDownCheckAvailable(p) ==
    /\ pc[p] = "scale_down_available"
    /\ IF available < scale_count[p]
         THEN /\ returned' = ScaleRet("NotEnoughConnectionsAvailable", 171,
                                       scale_count[p])
              /\ scale_count' = [scale_count EXCEPT ![p] = 0]
              /\ pc' = [pc EXCEPT ![p] = "idle"]
         ELSE /\ returned' = NoResult
              /\ UNCHANGED scale_count
              /\ pc' = [pc EXCEPT ![p] = "scale_down_sub_pool_size"]
    /\ UNCHANGED <<poolVars, guards, con, reconnectVars, netVars, dead_con,
                   opened, serverVars, setupVars, codecVars,
                   getVars, cncVars>>

\* scale_down: self.pool_size.fetch_sub(count)
ScaleDownPoolSize(p) ==
    /\ pc[p] = "scale_down_sub_pool_size"
    /\ pool_size' = fetch_sub(pool_size, scale_count[p])
    /\ pc' = [pc EXCEPT ![p] = "scale_down_sub_available"]
    /\ returned' = NoResult
    /\ UNCHANGED <<available, has_dead_con, connections, guards, con,
                   reconnectVars, netVars, scaleVars, serverVars, setupVars, codecVars,
                   getVars, cncVars>>

\* scale_down: self.available.fetch_sub(count)
ScaleDownAvailable(p) ==
    /\ pc[p] = "scale_down_sub_available"
    /\ available' = fetch_sub(available, scale_count[p])
    /\ pc' = [pc EXCEPT ![p] = "scale_down_drop"]
    /\ returned' = NoResult
    /\ UNCHANGED <<pool_size, has_dead_con, connections, guards, con,
                   reconnectVars, netVars, scaleVars, serverVars, setupVars, codecVars,
                   getVars, cncVars>>

\* ConnectionPool::drop(count): count times std::mem::drop(cons.pop_front())
\* under one hold of the lock; what stays in the queue
drop(q, n) == IF n >= Len(q) THEN <<>> ELSE SubSeq(q, n + 1, Len(q))

\* scale_down: self.drop(count).await?; Ok(())
ScaleDownDrop(p) ==
    /\ pc[p] = "scale_down_drop"
    /\ LockFree
    /\ connections' = drop(connections, scale_count[p])
    /\ scale_count' = [scale_count EXCEPT ![p] = 0]
    /\ pc' = [pc EXCEPT ![p] = "idle"]
    /\ returned' = ScaleRet("Ok", 177, scale_count[p])
    /\ UNCHANGED <<available, pool_size, has_dead_con, guards, con,
                   reconnectVars, netVars, dead_con, opened, serverVars, setupVars, codecVars,
                   getVars, cncVars>>

\* ---------------------------------------------------- v2 pool: guard release
\* v2 release is the release of the first pool, taken under the lock
V2ReleasePush(p, c) == LockFree /\ ReleasePush(p, c)

\* -------------------------------------------------- v2 pool: reconnect task
\* v2 reconnect_task: let dead = dead_con.load(); if dead > 0 { for _ in 0..dead
V2ReconnectLoad ==
    /\ rpc = "load"
    /\ dead_con > 0
    /\ ri' = dead_con
    /\ UNCHANGED dead
    /\ rpc' = "v2_connect"
    /\ returned' = NoResult
    /\ UNCHANGED <<poolVars, taskVars, netVars, scaleVars, serverVars, setupVars, codecVars,
                   getVars, cncVars>>

\* v2 reconnect_task: a connect() that succeeds, and cons.push_back(con)
V2ReconnectConnectOk ==
    /\ rpc = "v2_connect"
    /\ nextId <= MaxConns
    /\ connections' = push_back(connections, nextId)
    /\ nextId' = nextId + 1
    /\ rpc' = "v2_dead_sub"
    /\ returned' = NoResult
    /\ UNCHANGED <<available, pool_size, has_dead_con, taskVars, ri, dead, broken,
                   scaleVars, serverVars, setupVars, codecVars,
                   getVars, cncVars>>

\* v2 reconnect_task: a connect() that fails ends the iteration
V2ReconnectConnectErr ==
    /\ rpc = "v2_connect"
    /\ ri' = ri - 1
    /\ UNCHANGED dead
    /\ rpc' = IF ri = 1 THEN "load" ELSE "v2_connect"
    /\ returned' = NoResult
    /\ UNCHANGED <<poolVars, taskVars, netVars, scaleVars, serverVars, setupVars, codecVars,
                   getVars, cncVars>>

\* v2 reconnect_task: dead_con.fetch_sub(1)
V2ReconnectDeadSub ==
    /\ rpc = "v2_dead_sub"
    /\ dead_con' = fetch_sub(dead_con, 1)
    /\ rpc' = "v2_fetch_add"
    /\ returned' = NoResult
    /\ UNCHANGED <<poolVars, taskVars, ri, dead, netVars, scale_count, opened,
                   serverVars, setupVars, codecVars,
                   getVars, cncVars>>

\* v2 reconnect_task: available.fetch_add(1) ends the iteration and gives
\* the lock back
V2ReconnectFetchAdd ==
    /\ rpc = "v2_fetch_add"
    /\ available' = fetch_add(available, 1)
    /\ ri' = ri - 1
    /\ UNCHANGED dead
    /\ rpc' = IF ri = 1 THEN "load" ELSE "v2_connect"
    /\ returned' = NoResult
    /\ UNCHANGED <<pool_size, has_dead_con, connections, taskVars, netVars,
                   scaleVars, serverVars, setupVars, codecVars,
                   getVars, cncVars>>

NextV2 ==
    \/ \E p \in Callers : V2TryAcquire(p)
    \/ \E p \in Callers : V2PopFront(p)
    \/ \E p \in Callers : V2Probe(p)
    \/ \E p \in Callers : V2ConnectOk(p)
    \/ \E p \in Callers : V2ConnectErr(p)
    \/ \E p \in Callers : V2Guard(p)
    \/ \E p \in Callers : V2FetchSub(p)
    \/ \E p \in Callers : V2DeadCon(p)
    \/ \E p \in Callers : V2Timeout(p)
    \/ \E p \in Callers, c \in ConnIds : V2ReleasePush(p, c)
    \/ \E p \in Callers : ReleaseFetchAdd(p)
    \/ \E p \in Callers, k \in 1 .. MaxConns : scale_up(p, k)
    \/ \E p \in Callers : ScaleUpConnectOk(p)
    \/ \E p \in Callers : ScaleUpConnectErr(p)
    \/ \E p \in Callers : ScaleUpExtend(p)
    \/ \E p \in Callers : ScaleUpPoolSize(p)
    \/ \E p \in Callers : ScaleUpAvailable(p)
    \/ \E p \in Callers, k \in 1 .. MaxConns : scale_down(p, k)
    \/ \E p \in Callers : ScaleDownCheckAvailable(p)
    \/ \E p \in Callers : ScaleDownPoolSize(p)
    \/ \E p \in Callers : ScaleDownAvailable(p)
    \/ \E p \in Callers : ScaleDownDrop(p)
    \/ V2ReconnectLoad
    \/ V2ReconnectConnectOk
    \/ V2ReconnectConnectErr
    \/ V2ReconnectDeadSub
    \/ V2ReconnectFetchAdd
    \/ Kill

SpecV2 == Init /\ [][NextV2]_vars

\* the task that scales the pool
Scalers == {1}

\* the v2 pool while the sockets of its connections stay alive: every task
\* acquires and drops guards and one of them scales the pool; a connect()
\* may still fail
NextScale ==
    \/ \E p \in Callers : V2TryAcquire(p)
    \/ \E p \in Callers : V2PopFront(p)
    \/ \E p \in Callers : V2Probe(p)
    \/ \E p \in Callers : V2Guard(p)
    \/ \E p \in Callers, c \in ConnIds : V2ReleasePush(p, c)
    \/ \E p \in Callers : ReleaseFetchAdd(p)
    \/ \E p \in Scalers, k \in 1 .. MaxConns : scale_up(p, k)
    \/ \E p \in Scalers : ScaleUpConnectOk(p)
    \/ \E p \in Scalers : ScaleUpConnectErr(p)
    \/ \E p \in Scalers : ScaleUpExtend(p)
    \/ \E p \in Scalers : ScaleUpPoolSize(p)
    \/ \E p \in Scalers : ScaleUpAvailable(p)
    \/ \E p \in Scalers, k \in 1 .. MaxConns : scale_down(p, k)
    \/ \E p \in Scalers : ScaleDownCheckAvailable(p)
    \/ \E p \in Scalers : ScaleDownPoolSize(p)
    \/ \E p \in Scalers : ScaleDownAvailable(p)
    \/ \E p \in Scalers : ScaleDownDrop(p)

SpecScale == Init /\ [][NextScale]_vars

\* --------------------------------------------------- recovery after a fault
\* one step of the reconnect task while every connect() succeeds
ReconnectStep ==
    \/ ReconnectLoad
    \/ drop_all
    \/ ConnectOk
    \/ ReconnectFetchAdd
    \/ ClearDead

\* the server is restarted once: the sockets of the pool's first connections
\* are dead, and TcpStream::connect succeeds from then on
KillOnce == nextId = pool_size + 1 /\ Kill

\* a pool of one connection whose callers use try_acquire and drop their
\* guards, with a server that goes away once and is reachable afterwards
HealInit == Init /\ pool_size = 1

HealNext ==
    \/ \E p \in Callers : TryAcquire(p)
    \/ \E p \in Callers : CheckAvailable(p)
    \/ \E p \in Callers : PopFront(p)
    \/ \E p \in Callers : FetchSub(p)
    \/ \E p \in Callers : Probe(p)
    \/ \E p \in Callers, c \in ConnIds : ReleasePush(p, c)
    \/ \E p \in Callers : ReleaseFetchAdd(p)
    \/ ReconnectLoad
    \/ drop_all
    \/ ConnectOk
    \/ ReconnectFetchAdd
    \/ ClearDead
    \/ KillOnce

\* the reconnect task is a spawned task that loops for ever: whenever it can
\* take its next step it eventually does
SpecHeal == HealInit /\ [][HealNext]_vars /\ WF_vars(ReconnectStep)

\* ------------------------------------------------- acquires that all succeed
\* Tasks that acquire, use and drop guards while the server stays up (every
\* probe is answered, the reconnect task finds nothing to do) and every
\* try_acquire that gets to the queue finds a connection in it.
BalanceNext ==
    \/ \E p \in Callers : TryAcquire(p)
    \/ \E p \in Callers : CheckAvailable(p)
    \/ \E p \in Callers : connections # <<>> /\ PopFront(p)
    \/ \E p \in Callers : FetchSub(p)
    \/ \E p \in Callers : Probe(p)
    \/ \E p \in Callers, c \in ConnIds : Command(p, c)
    \/ \E p \in Callers, c \in ConnIds : ReleasePush(p, c)
    \/ \E p \in Callers : ReleaseFetchAdd(p)
    \/ ReconnectLoad
    \/ ClearDead

SpecBalance == Init /\ [][BalanceNext]_vars

\* ----------------------------------------------------------------- server
\* One accepted connection of Server::listen_tcp (server.rs:76-110) with the
\* example's ACache registered, and the client that owns the other end: a
\* Connection (connection.rs), which sends one request and then waits for
\* its reply.
MaxRequests == 2

\* what the server steps leave alone
poolSide ==
    <<poolVars, taskVars, returned, reconnectVars, netVars, scaleVars,
      setupVars, codecVars, getVars, cncVars>>

\* A read through the BufStream takes bytes from its buffer and, once the
\* buffer is empty, fills it from the socket with the bytes that have
\* arrived, which may be more than the read needs. How many bytes a fill
\* took shows only when the BufStream is taken apart and its buffer is lost,
\* so that choice is made there (IntoInner): after a read, rbuf holds every
\* byte that had arrived by then, the bytes the buffer may hold.
Readable(n) == Len(rbuf) + Len(wire) >= n

\* the n bytes read, and the bytes left behind them
Read(n) == SubSeq(rbuf \o wire, 1, n)
Rest(n) == SubSeq(rbuf \o wire, n + 1, Len(rbuf) + Len(wire))

\* BufStream::into_inner: the socket is given back and the first k bytes of
\* b, which the read buffer held, are lost
IntoInner(b, k) == SubSeq(b, k + 1, Len(b))

\* a read of n bytes ends with an error: the client is gone and fewer than n
\* bytes are left
Eof(n) == cpc = "closed" /\ ~Readable(n)

\* (variant: the Pong is written but not flushed)
ReadCmd_noflush ==
    /\ spc = "read_cmd"
    /\ Readable(1)
    /\ cmd' = CommandFrom(Read(1)[1])
    /\ IF cmd' = "Ping"
       THEN /\ wbuf' = wbuf \o <<CommandInto("Pong")>>
            /\ \E k \in 0 .. Len(Rest(1)) : wire' = IntoInner(Rest(1), k)
            /\ rbuf' = <<>>
            /\ spc' = "read_cmd"
       ELSE /\ rbuf' = Rest(1)
            /\ wire' = <<>>
            /\ spc' = "read_cache"
            /\ wbuf' = wbuf
    /\ UNCHANGED <<reply, cache, store, signals, watch, cpc, sent, poolSide>>
\* listen_tcp, server.rs:79-96: a new BufStream, the opcode byte is read;
\* Ping is answered with Pong and flushed, the BufStream is taken apart
\* (what its read buffer still holds is lost) and the loop starts over;
\* any other command goes on to the namespace byte.
ReadCmd ==
    /\ spc = "read_cmd"
    /\ Readable(1)
    /\ cmd' = CommandFrom(Read(1)[1])
    /\ IF cmd' = "Ping"
       THEN /\ reply' = reply \o wbuf \o <<CommandInto("Pong")>>
            /\ \E k \in 0 .. Len(Rest(1)) : wire' = IntoInner(Rest(1), k)
            /\ rbuf' = <<>>
            /\ spc' = "read_cmd"
       ELSE /\ rbuf' = Rest(1)
            /\ wire' = <<>>
            /\ spc' = "read_cache"
            /\ reply' = reply
    /\ UNCHANGED <<wbuf, cache, store, signals, watch, cpc, sent, poolSide>>

\* server.rs:80-88: the read returns 0 bytes (socket closed): the task ends
ReadCmdEof ==
    /\ spc = "read_cmd"
    /\ Eof(1)
    /\ spc' = "closed"
    /\ UNCHANGED <<wire, rbuf, wbuf, reply, cmd, cache, store, signals, watch, cpc,
                   sent, poolSide>>

\* server.rs:98-103: the namespace byte is read and looked up; a namespace
\* that is not registered is logged ("Could not find cache") and the
\* iteration goes on to its flush.
ReadCache ==
    /\ spc = "read_cache"
    /\ Readable(1)
    /\ cache' = Read(1)[1]
    /\ rbuf' = Rest(1)
    /\ wire' = <<>>
    /\ spc' = IF cache' \in entries THEN "handle" ELSE "flush"
    /\ UNCHANGED <<wbuf, reply, cmd, store, signals, watch, cpc, sent, poolSide>>

\* server.rs:98: read_u8().await.unwrap() on a closed socket panics
ReadCacheEof ==
    /\ spc = "read_cache"
    /\ Eof(1)
    /\ spc' = "closed"
    /\ UNCHANGED <<wire, rbuf, wbuf, reply, cmd, cache, store, signals, watch, cpc,
                   sent, poolSide>>

\* Get2::get on the HashMap: the value under idx, if any
get(idx) == IF idx \in DOMAIN store THEN <<store[idx]>> ELSE <<>>

\* ACache::handle, Command::Get (example lib.rs:79-86): reads the u32 key,
\* writes the Option of the value
HandleGet ==
    /\ spc = "handle" /\ cache = CacheNameInto("A") /\ cmd = "Get"
    /\ Readable(4)
    /\ rbuf' = Rest(4)
    /\ wire' = <<>>
    /\ wbuf' = wbuf \o OptionWrite(get(FromU32(Read(4))))
    /\ spc' = "flush"
    /\ UNCHANGED <<reply, cmd, cache, store, signals, watch, cpc, sent, poolSide>>

\* the orders in which a HashMap may hand out the keys in S
Orders(S) ==
    {f \in [1 .. Cardinality(S) -> S] :
        \A i, j \in 1 .. Cardinality(S) : f[i] = f[j] => i = j}

\* the keys of a sequence written one after the other
WriteEach(ks) ==
    [i \in 1 .. 4 * Len(ks) |-> U32(ks[((i - 1) \div 4) + 1])[((i - 1) % 4) + 1]]

\* ACache::handle, Command::Keys (example lib.rs:87-93): writes each key,
\* in the order the HashMap yields them
HandleKeys ==
    /\ spc = "handle" /\ cache = CacheNameInto("A") /\ cmd = "Keys"
    /\ \E ks \in Orders(DOMAIN store) : wbuf' = wbuf \o WriteEach(ks)
    /\ spc' = "flush"
    /\ UNCHANGED <<wire, rbuf, reply, cmd, cache, store, signals, watch, cpc, sent,
                   poolSide>>

\* A dispatch that hands a Set to ACache whatever namespace byte was read.
HandleSet_any ==
    /\ spc = "handle" /\ cache \in entries /\ cmd = "Set"
    /\ Readable(16)
    /\ rbuf' = Rest(16)
    /\ wire' = <<>>
    /\ LET idx == FromU32(SubSeq(Read(16), 1, 4))
           val == ACacheValRead(SubSeq(Read(16), 5, 16))
       IN  store' = [k \in DOMAIN store \cup {idx} |->
                        IF k = idx THEN val ELSE store[k]]
    /\ spc' = "flush"
    /\ UNCHANGED <<wbuf, reply, cmd, cache, signals, watch, cpc, sent, poolSide>>

\* ACache::handle, Command::Set (example lib.rs:94-100): reads the u32 key
\* and the ACacheVal, inserts them; nothing is written
HandleSet ==
    /\ spc = "handle" /\ cache = CacheNameInto("A") /\ cmd = "Set"
    /\ Readable(16)
    /\ rbuf' = Rest(16)
    /\ wire' = <<>>
    /\ LET idx == FromU32(SubSeq(Read(16), 1, 4))
           val == ACacheValRead(SubSeq(Read(16), 5, 16))
       IN  store' = [k \in DOMAIN store \cup {idx} |->
                        IF k = idx THEN val ELSE store[k]]
    /\ spc' = "flush"
    /\ UNCHANGED <<wbuf, reply, cmd, cache, signals, watch, cpc, sent, poolSide>>

\* ACache::handle, any other command (example lib.rs:101): panic!, the task
\* ends and its socket is dropped
HandlePanic ==
    /\ spc = "handle" /\ cache = CacheNameInto("A")
    /\ cmd \notin {"Get", "Keys", "Set"}
    /\ spc' = "closed"
    /\ UNCHANGED <<wire, rbuf, wbuf, reply, cmd, cache, store, signals, watch, cpc,
                   sent, poolSide>>

\* ACache::handle: a read(..).await.unwrap() on a closed socket panics
HandleEof ==
    /\ spc = "handle" /\ cache = CacheNameInto("A")
    /\ \/ cmd = "Get" /\ Eof(4)
       \/ cmd = "Set" /\ Eof(16)
    /\ spc' = "closed"
    /\ UNCHANGED <<wire, rbuf, wbuf, reply, cmd, cache, store, signals, watch, cpc,
                   sent, poolSide>>

\* CommandAndControl::handle (server.rs:137-139): one send on the watch
\* channel; nothing is read and nothing is written
CommandAndControlHandle ==
    /\ spc = "handle" /\ cache = 255
    /\ signals' = signals + 1
    /\ watch' = "Get"
    /\ spc' = "flush"
    /\ UNCHANGED <<wire, rbuf, wbuf, reply, cmd, cache, store, cpc, sent,
                   poolSide>>

\* (variant: the BufStream is taken apart without the flush)
Flush_skip ==
    /\ spc = "flush"
    /\ \E k \in 0 .. Len(rbuf) : wire' = IntoInner(rbuf, k) \o wire
    /\ rbuf' = <<>>
    /\ spc' = "read_cmd"
    /\ UNCHANGED <<wbuf, reply, cmd, cache, store, signals, watch, cpc, sent,
                   poolSide>>
\* server.rs:105-108: flush, then into_inner: what the read buffer still
\* holds is lost, and the loop starts over
Flush ==
    /\ spc = "flush"
    /\ reply' = reply \o wbuf
    /\ wbuf' = <<>>
    /\ \E k \in 0 .. Len(rbuf) : wire' = IntoInner(rbuf, k) \o wire
    /\ rbuf' = <<>>
    /\ spc' = "read_cmd"
    /\ UNCHANGED <<cmd, cache, store, signals, watch, cpc, sent, poolSide>>

\* Connection::ping (connection.rs:56-58): the request
Ping ==
    /\ cpc = "idle" /\ sent < MaxRequests
    /\ wire' = wire \o <<CommandInto("Ping")>>
    /\ cpc' = "ping"
    /\ sent' = sent + 1
    /\ UNCHANGED <<rbuf, wbuf, reply, spc, cmd, cache, store, signals, watch,
                   poolSide>>

\* Connection::get (connection.rs:109-112): the request
ClientGet(c, idx) ==
    /\ cpc = "idle" /\ sent < MaxRequests
    /\ wire' = wire \o <<CommandInto("Get"), CacheNameInto(c)>> \o U32(idx)
    /\ cpc' = "get"
    /\ sent' = sent + 1
    /\ UNCHANGED <<rbuf, wbuf, reply, spc, cmd, cache, store, signals, watch,
                   poolSide>>

\* Connection::keys (connection.rs:192-194): the request
ClientKeys(c) ==
    /\ cpc = "idle" /\ sent < MaxRequests
    /\ wire' = wire \o <<CommandInto("Keys"), CacheNameInto(c)>>
    /\ cpc' = "keys"
    /\ sent' = sent + 1
    /\ UNCHANGED <<rbuf, wbuf, reply, spc, cmd, cache, store, signals, watch,
                   poolSide>>

\* Connection::set (connection.rs:310-314): the request
ClientSet(c, idx, data) ==
    /\ cpc = "idle" /\ sent < MaxRequests
    /\ wire' = wire \o <<CommandInto("Set"), CacheNameInto(c)>> \o U32(idx)
                    \o ACacheValWrite(data)
    /\ cpc' = "set"
    /\ sent' = sent + 1
    /\ UNCHANGED <<rbuf, wbuf, reply, spc, cmd, cache, store, signals, watch,
                   poolSide>>

\* the number of bytes the reply the client waits for takes, as far as the
\* bytes that arrived tell: u8::read (ping :60, set :316), Option::<R>::read
\* (get :114), Vec::<R>::read (keys :196)
ReplyLen ==
    IF cpc \in {"ping", "set"} THEN 1
    ELSE IF cpc = "get"
         THEN IF reply # <<>> /\ reply[1] = 1 THEN 13 ELSE 1
    ELSE IF Len(reply) < 4 THEN 4
    ELSE LET entry_count == FromU32(SubSeq(reply, 1, 4))
         IN  IF entry_count[1] = 0 THEN 4 + 4 * entry_count[2]
             ELSE 4 + 4 * 65536     \* and more

\* the reply has arrived: the call returns
ClientReturn ==
    /\ cpc \in {"ping", "get", "keys", "set"}
    /\ Len(reply) >= ReplyLen
    /\ reply' = SubSeq(reply, ReplyLen + 1, Len(reply))
    /\ cpc' = "idle"
    /\ UNCHANGED <<wire, rbuf, wbuf, spc, cmd, cache, store, signals, watch, sent,
                   poolSide>>

\* the Connection is dropped, whatever it waits for
ClientClose ==
    /\ cpc # "closed"
    /\ cpc' = "closed"
    /\ UNCHANGED <<wire, rbuf, wbuf, reply, spc, cmd, cache, store, signals, watch,
                   sent, poolSide>>

ServerNext ==
    \/ ReadCmd
    \/ ReadCmdEof
    \/ ReadCache
    \/ ReadCacheEof
    \/ HandleGet
    \/ HandleKeys
    \/ HandleSet
    \/ HandlePanic
    \/ HandleEof
    \/ CommandAndControlHandle
    \/ Flush
    \/ Ping
    \/ \E c \in CacheNames, idx \in Idxs : ClientGet(c, idx)
    \/ \E c \in CacheNames : ClientKeys(c)
    \/ \E c \in CacheNames, idx \in Idxs, data \in Vals : ClientSet(c, idx, data)
    \/ ClientReturn
    \/ ClientClose

\* no pool on this side: the pool's variables keep the values of an empty pool
ServerSpecInit == Init /\ pool_size = 0

SpecServer == ServerSpecInit /\ [][ServerNext]_vars

\* A peer that is no Connection: it writes an opcode byte and a namespace
\* byte of its own choice to the socket (read at server.rs:80 and :98): 0x7A,
\* which is no command, or Save, sent to namespace 0, 1 or 255.
RawOpcodes == {122, CommandInto("Save")}
RawNamespaces == {CacheNameInto("A"), CacheNameInto("B"), 255}

RawWrite(op, ns) ==
    /\ cpc = "idle" /\ sent < MaxRequests
    /\ wire' = wire \o <<op, ns>>
    /\ cpc' = "raw"
    /\ sent' = sent + 1
    /\ UNCHANGED <<rbuf, wbuf, reply, spc, cmd, cache, store, signals, watch,
                   poolSide>>

\* the peer takes whatever the server sent it and goes on
RawReturn ==
    /\ cpc = "raw"
    /\ reply' = <<>>
    /\ cpc' = "idle"
    /\ UNCHANGED <<wire, rbuf, wbuf, spc, cmd, cache, store, signals, watch,
                   sent, poolSide>>

RawNext ==
    \/ ServerNext
    \/ \E op \in RawOpcodes, ns \in RawNamespaces : RawWrite(op, ns)
    \/ RawReturn

SpecRaw == ServerSpecInit /\ [][RawNext]_vars

(***************************************************************************)
(* The codecs: impl Parse for the basic datatypes (wrapper.rs), the String *)
(* codec of the utils crate, the derived codecs of sample_structs.rs and   *)
(* the conversions between Command and u8.  A value is kept with the name  *)
(* of its type; the types with a parameter are taken at u8.                *)
(***************************************************************************)

\* values written before one is read back
MaxWrites == 2

\* the values that are written: for every type its extremes and, for the
\* types with a variable length, an empty and a longer value.  A String is
\* its UTF-8 bytes ("", "a", "a\0b", "é"); Example11 is the index of the
\* variant with its field.
Values ==
    [t : {"u8"}, v : {0, 1, 255}]
    \cup [t : {"i8"}, v : {-128, -1, 0, 127}]
    \cup [t : {"u32", "Example2"}, v : {AsU32(0), <<257, 0>>, <<65535, 65535>>}]
    \cup [t : {"bool"}, v : BOOLEAN]
    \cup [t : {"String", "utils::String"},
          v : {<<>>, <<97>>, <<97, 0, 98>>, <<195, 169>>}]
    \cup [t : {"Vec"}, v : {<<>>, <<1>>, <<0, 0>>}]
    \cup [t : {"HashMap"}, v : {<<>>, [k \in {1} |-> 2], [k \in {1, 2} |-> k + 2]}]
    \cup [t : {"Option"}, v : {<<>>, <<7>>}]
    \cup [t : {"Result"}, v : {<<TRUE, 1>>, <<FALSE, 1>>}]
    \cup [t : {"()"}, v : {"()"}]
    \cup [t : {"EmptyMsg"}, v : {"EmptyMsg"}]
    \cup [t : {"Example1"}, v : {"Example1"}]
    \cup [t : {"Example11"},
          v : {<<0, <<AsU32(1234)>>>>, <<1, <<>>>>, <<1, <<AsU32(1), AsU32(2)>>>>,
               <<2, <<>>>>}]
    \cup [t : {"Command"}, v : {Commands[i] : i \in 1 .. 10} \cup {"Ping", "Pong"}]

\* the bytes a peer may send instead: every single byte, short sequences
\* around the terminator and a two-byte character, and maps of up to two
\* pairs over two keys with a count that may differ from the pairs sent
RawInputs ==
    LET SeqsOf(S, n) == UNION {[1 .. k -> S] : k \in 0 .. n}
    IN  SeqsOf(0 .. 255, 1)
        \cup SeqsOf({0, 97, 195, 169}, 3)
        \cup {U32(AsU32(n)) \o p : n \in 0 .. 2, p \in SeqsOf({1, 2}, 4)}

\* String::from_utf8 (wrapper.rs:302): TRUE when the bytes are well-formed
\* UTF-8, that is when they split into characters of one to four bytes
from_utf8(b) ==
    LET cont(i) == i <= Len(b) /\ b[i] \in 128 .. 191
        in(i, lo, hi) == i <= Len(b) /\ b[i] \in lo .. hi
        width(i) ==
            IF b[i] \in 0 .. 127 THEN 1
            ELSE IF b[i] \in 194 .. 223 /\ cont(i + 1) THEN 2
            ELSE IF /\ \/ b[i] = 224 /\ in(i + 1, 160, 191)
                       \/ b[i] \in (225 .. 236) \cup {238, 239} /\ cont(i + 1)
                       \/ b[i] = 237 /\ in(i + 1, 128, 159)
                    /\ cont(i + 2) THEN 3
            ELSE IF /\ \/ b[i] = 240 /\ in(i + 1, 144, 191)
                       \/ b[i] \in 241 .. 243 /\ cont(i + 1)
                       \/ b[i] = 244 /\ in(i + 1, 128, 143)
                    /\ cont(i + 2) /\ cont(i + 3) THEN 4
            ELSE 0
    IN  \E S \in SUBSET (1 .. Len(b)) :
            /\ Len(b) > 0 => 1 \in S
            /\ \A i \in S : /\ width(i) > 0
                            /\ i + width(i) <= Len(b) => i + width(i) \in S

\* (variant: a struct without fields writes nothing)
Example1Write_nothing == <<>>

\* the write derived for a struct without fields (parse.rs:271-273):
\* 0u8.write(buf)
Example1Write == <<0>>

\* (variant: the index of the variants starts at 1)
Example11Write_from1(v) ==
    LET u32s(s) == [i \in 1 .. 4 * Len(s) |->
                       U32(s[((i - 1) \div 4) + 1])[((i - 1) % 4) + 1]]
    IN  <<v[1] + 1>> \o (IF v[1] = 0 THEN U32(v[2][1])
                         ELSE IF v[1] = 1
                              THEN U32(AsU32(Len(v[2]))) \o u32s(v[2])
                         ELSE <<0>>)

\* the write derived for the enum Example11 (parse.rs:276-342): the index
\* of the variant as u8, then the field (Example2, Vec<u32>) or, for the
\* variant without a field, EmptyMsg
Example11Write(v) ==
    LET u32s(s) == [i \in 1 .. 4 * Len(s) |->
                       U32(s[((i - 1) \div 4) + 1])[((i - 1) % 4) + 1]]
    IN  <<v[1]>> \o (IF v[1] = 0 THEN U32(v[2][1])
                     ELSE IF v[1] = 1
                          THEN U32(AsU32(Len(v[2]))) \o u32s(v[2])
                     ELSE <<0>>)

\* Parse::write (wrapper.rs, derive/src/parse.rs generate_fn_write) and
\* u8::from(Command): the byte sequences a value may be written as; a
\* HashMap writes its pairs in the order its iterator yields them
write(x) ==
    LET v == x.v
    IN  CASE x.t = "u8" -> {<<v>>}
          [] x.t = "i8" -> {<<(v + 256) % 256>>}
          [] x.t \in {"u32", "Example2"} -> {U32(v)}
          [] x.t = "bool" -> {<<IF v THEN 1 ELSE 0>>}
          [] x.t \in {"String", "utils::String"} -> {v \o <<0>>}
          [] x.t = "Vec" -> {U32(AsU32(Len(v))) \o v}
          [] x.t = "HashMap" ->
                {U32(AsU32(Cardinality(DOMAIN v)))
                    \o [i \in 1 .. 2 * Len(ks) |->
                          IF i % 2 = 1 THEN ks[(i + 1) \div 2]
                          ELSE v[ks[i \div 2]]] : ks \in Orders(DOMAIN v)}
          [] x.t = "Option" -> {IF v = <<>> THEN <<0>> ELSE <<1, v[1]>>}
          [] x.t = "Result" -> {<<IF v[1] THEN 1 ELSE 0, v[2]>>}
          [] x.t = "()" -> {<<>>}
          [] x.t = "EmptyMsg" -> {<<0>>}
          [] x.t = "Example1" -> {Example1Write}
          [] x.t = "Example11" -> {Example11Write(v)}
          [] x.t = "Command" -> {<<CommandInto(v)>>}

\* Parse::read (wrapper.rs, utils/src/wrapper.rs:127-150, derive/src/parse.rs
\* generate_fn_read) and Command::from(u8), applied to the bytes b a reader
\* holds up to its end: the outcome (a value, an error that is returned, or
\* a panic) and the bytes left unread.  A read past the end is an
\* UnexpectedEof error; read_until stops at the end without one.
read(t, b) ==
    LET eof == [state |-> "err", val |-> "IoError", rest |-> <<>>]
        ok(v, n) == [state |-> "ok", val |-> v, rest |-> SubSeq(b, n + 1, Len(b))]
        fixed(n, v) == IF Len(b) < n THEN eof ELSE ok(v, n)
        count(at) == FromU32(SubSeq(b, at, at + 3))
        \* read_until(0u8, ..): the bytes up to and with the first 0, or all
        until == IF \E i \in 1 .. Len(b) : b[i] = 0
                 THEN CHOOSE i \in 1 .. Len(b) :
                          b[i] = 0 /\ \A j \in 1 .. i - 1 : b[j] # 0
                 ELSE Len(b)
        string(val) ==
            IF from_utf8(val) THEN ok(val, until)
            ELSE [state |-> "err", val |-> "StringParseError",
                  rest |-> SubSeq(b, until + 1, Len(b))]
        \* entry_count elements of w bytes each after the count that
        \* stands at byte at
        counted(at, w, elem(_)) ==
            IF Len(b) < at + 3 THEN eof
            ELSE LET n == count(at)[2]
                 IN  IF count(at)[1] # 0 \/ Len(b) < at + 3 + w * n THEN eof
                     ELSE ok(elem(n), at + 3 + w * n)
    IN  CASE t = "u8" -> fixed(1, b[1])
          [] t = "i8" -> fixed(1, IF b[1] >= 128 THEN b[1] - 256 ELSE b[1])
          [] t = "u32" -> fixed(4, FromU32(b))
          [] t = "Example2" -> fixed(4, FromU32(b))
          [] t = "bool" -> fixed(1, b[1] = 1)
          [] t = "String" ->
                string(IF until > 0 THEN SubSeq(b, 1, until - 1) ELSE <<>>)
          [] t = "utils::String" -> string(SubSeq(b, 1, until))
          [] t = "Vec" ->
                LET elem(n) == SubSeq(b, 5, 4 + n) IN counted(1, 1, elem)
          [] t = "HashMap" ->
                LET key(i) == b[3 + 2 * i]
                    elem(n) ==
                        [k \in {key(i) : i \in 1 .. n} |->
                            LET last == CHOOSE i \in 1 .. n :
                                    key(i) = k /\ \A j \in i + 1 .. n : key(j) # k
                            IN  b[4 + 2 * last]]
                IN  counted(1, 2, elem)
          [] t = "Option" ->
                IF Len(b) < 1 THEN eof
                ELSE IF b[1] = 1 THEN fixed(2, <<b[2]>>) ELSE ok(<<>>, 1)
          [] t = "Result" -> fixed(2, <<b[1] = 1, b[2]>>)
          [] t = "()" -> ok("()", 0)
          [] t = "EmptyMsg" -> fixed(1, "EmptyMsg")
          [] t = "Example1" -> fixed(1, "Example1")
          [] t = "Example11" ->
                IF Len(b) < 1 THEN eof
                ELSE IF b[1] = 0
                     THEN fixed(5, <<0, <<FromU32(SubSeq(b, 2, 5))>>>>)
                ELSE IF b[1] = 1
                     THEN LET elem(n) ==
                                  <<1, [i \in 1 .. n |->
                                          FromU32(SubSeq(b, 4 * i + 2, 4 * i + 5))]>>
                          IN  counted(2, 4, elem)
                ELSE IF b[1] = 2 THEN fixed(2, <<2, <<>>>>)
                ELSE [state |-> "panic", val |-> "Invalid enum field",
                      rest |-> SubSeq(b, 2, Len(b))]
          [] t = "Command" -> fixed(1, CommandFrom(b[1]))

Types == {x.t : x \in Values}

\* value.write(&mut buf): the bytes are appended to the buffer
ParseWrite(x) ==
    /\ decoded.state = "none"
    /\ Len(value) < MaxWrites
    /\ Len(value) = 0 => Len(buf) = 0
    /\ \E bytes \in write(x) :
          /\ value' = Append(value, [t |-> x.t, v |-> x.v, bytes |-> bytes])
          /\ buf' = buf \o bytes
    /\ UNCHANGED <<decoded, poolVars, taskVars, returned, reconnectVars,
                   netVars, scaleVars, serverVars, setupVars,
                   getVars, cncVars>>

\* a peer has sent bytes of its own choice
Feed(b) ==
    /\ decoded.state = "none"
    /\ Len(value) = 0 /\ Len(buf) = 0
    /\ buf' = b
    /\ UNCHANGED <<value, decoded, poolVars, taskVars, returned, reconnectVars,
                   netVars, scaleVars, serverVars, setupVars,
                   getVars, cncVars>>

\* T::read(&mut buf): the type is the one of the value written first, or
\* any type when the bytes are a peer's; after a panic nothing is read
ParseRead(t) ==
    /\ decoded.state # "panic"
    /\ Len(value) > 0 => t = Head(value).t
    /\ Len(value) = 0 => (decoded.state # "none" \/ Len(buf) > 0)
    /\ LET r == read(t, buf)
       IN  /\ decoded' = [t |-> t, state |-> r.state, val |-> r.val,
                          input |-> buf]
           /\ buf' = r.rest
    /\ value' = IF Len(value) > 0 THEN Tail(value) ELSE value
    /\ UNCHANGED <<poolVars, taskVars, returned, reconnectVars, netVars,
                   scaleVars, serverVars, setupVars,
                   getVars, cncVars>>

CodecNext ==
    \/ \E x \in Values : ParseWrite(x)
    \/ \E b \in RawInputs : Feed(b)
    \/ \E t \in Types : ParseRead(t)

SpecCodec == ServerSpecInit /\ [][CodecNext]_vars


(***************************************************************************)
(* Get2::mget (traits.rs:145-153), the provided method: one get for every  *)
(* id, in the order of the ids, each result pushed to the list returned.   *)
(* The deprecated Get::mget (traits.rs:189-199) is the same loop with the  *)
(* parameter handed on to every get.  The cache is the one of ACache.      *)
(***************************************************************************)

\* ids handed to one call
MaxIds == 3

\* the lists of ids of a call: keys that ACache holds (0, 1) and one that
\* it does not (3), with repetitions
IdVecs == UNION {[1 .. n -> {AsU32(0), AsU32(1), AsU32(3)}] : n \in 0 .. MaxIds}

\* the call: `let mut result = Vec::new()`
mget(v) ==
    /\ mpc = "idle"
    /\ ids' = v
    /\ result' = <<>>
    /\ mi' = 0
    /\ mpc' = "loop"
    /\ UNCHANGED <<poolVars, taskVars, returned, reconnectVars, netVars,
                   scaleVars, serverVars, setupVars, codecVars, cncVars>>

\* (variant: an id that the cache does not hold is left out of the result)
MgetPush_omit ==
    /\ mpc = "loop" /\ mi < Len(ids)
    /\ result' = result \o (IF get(ids[mi + 1]) = <<>> THEN <<>>
                            ELSE <<get(ids[mi + 1])>>)
    /\ mi' = mi + 1
    /\ UNCHANGED <<ids, mpc, poolVars, taskVars, returned, reconnectVars,
                   netVars, scaleVars, serverVars, setupVars, codecVars, cncVars>>

\* one pass of `for id in ids`: result.push(self.get(id).await)
MgetPush ==
    /\ mpc = "loop" /\ mi < Len(ids)
    /\ result' = Append(result, get(ids[mi + 1]))
    /\ mi' = mi + 1
    /\ UNCHANGED <<ids, mpc, poolVars, taskVars, returned, reconnectVars,
                   netVars, scaleVars, serverVars, setupVars, codecVars, cncVars>>

\* the loop is through: `result` is returned
MgetReturn ==
    /\ mpc = "loop" /\ mi = Len(ids)
    /\ mpc' = "done"
    /\ UNCHANGED <<ids, result, mi, poolVars, taskVars, returned,
                   reconnectVars, netVars, scaleVars, serverVars, setupVars,
                   codecVars, cncVars>>

MgetNext == (\E v \in IdVecs : mget(v)) \/ MgetPush \/ MgetReturn

SpecMget == ServerSpecInit /\ [][MgetNext]_vars

\* ------------------------------------------------------------ server set-up
\* the ids and the caches that are handed to Server::add
AddIds == {0, 1, 254, 255}
Caches == {"ACache", "BCache", "CCache"}

\* HashMap::insert: the entry of name is the cache, the others stay
insert(map, name, c) ==
    [id \in DOMAIN map \cup {name} |-> IF id = name THEN c ELSE map[id]]

\* Server::add (server.rs:49-52): self.entries.insert(name.into(), cache)
add(name, c) ==
    /\ registry' = insert(registry, name, c)
    /\ UNCHANGED <<poolVars, taskVars, returned, reconnectVars, netVars,
                   scaleVars, serverVars, codecVars,
                   getVars, cncVars>>

SetupNext == \E name \in AddIds, c \in Caches : add(name, c)

\* Server::new followed by any number of add calls
SpecSetup == ServerSpecInit /\ [][SetupNext]_vars

(***************************************************************************)
(* The control channel: Server::listen_cnc (server.rs:55-61) spawns the    *)
(* cnc_listener of every entry of the map; the one of a cache              *)
(* (example/src/lib.rs:105-114) clones the watch receiver and loops over   *)
(* changed().await, borrow() and a get, the one of CommandAndControl       *)
(* (server.rs:141) returns at once.  A watch receiver holds the version of *)
(* the value it has seen; changed() returns when the channel's version,    *)
(* the number of sends so far, differs from it, and takes it over.  For    *)
(* every listener `reacted` is the version its last finished reaction was  *)
(* woken up for.                                                           *)
(***************************************************************************)

\* signals sent on the control channel
MaxSignals == 2

\* the ids under which caches are added around listen_cnc
ListenerIds == {0, 1}

\* listen_cnc: one task per entry the map holds now; the receiver a cache
\* was built with has seen the value the channel was created with
listen_cnc ==
    /\ DOMAIN listeners = {}
    /\ listeners' =
          [id \in DOMAIN registry |->
              [pc |-> IF registry[id] = "CommandAndControl" THEN "done"
                      ELSE "changed",
               seen |-> 0, reacted |-> 0]]
    /\ UNCHANGED <<poolVars, taskVars, returned, reconnectVars, netVars,
                   scaleVars, serverVars, setupVars, codecVars, getVars>>

\* CommandAndControl::handle for one request to namespace 255:
\* self.cnc_rec.send(Command::Get)
CncSend ==
    /\ signals < MaxSignals
    /\ 255 \in DOMAIN registry /\ registry[255] = "CommandAndControl"
    /\ signals' = signals + 1
    /\ watch' = "Get"
    /\ UNCHANGED <<wire, rbuf, wbuf, reply, spc, cmd, cache, store, cpc, sent,
                   poolVars, taskVars, returned, reconnectVars, netVars,
                   scaleVars, setupVars, codecVars, getVars, cncVars>>

\* cnc_listener: cnc_copy.changed().await returns
Changed(id) ==
    /\ id \in DOMAIN listeners
    /\ listeners[id].pc = "changed"
    /\ listeners[id].seen # signals
    /\ listeners' = [listeners EXCEPT ![id].pc = "react", ![id].seen = signals]
    /\ UNCHANGED <<poolVars, taskVars, returned, reconnectVars, netVars,
                   scaleVars, serverVars, setupVars, codecVars, getVars>>

\* (variant: the value is read with borrow_and_update() after the get)
React_update(id) ==
    /\ id \in DOMAIN listeners
    /\ listeners[id].pc = "react"
    /\ listeners' = [listeners EXCEPT ![id].pc = "changed",
                                      ![id].reacted = listeners[id].seen,
                                      ![id].seen = signals]
    /\ UNCHANGED <<poolVars, taskVars, returned, reconnectVars, netVars,
                   scaleVars, serverVars, setupVars, codecVars, getVars>>

\* cnc_listener: *cnc_copy.borrow(), the get and dbg!, and back to the top
\* of the loop
React(id) ==
    /\ id \in DOMAIN listeners
    /\ listeners[id].pc = "react"
    /\ listeners' = [listeners EXCEPT ![id].pc = "changed",
                                      ![id].reacted = listeners[id].seen]
    /\ UNCHANGED <<poolVars, taskVars, returned, reconnectVars, netVars,
                   scaleVars, serverVars, setupVars, codecVars, getVars>>

CncNext ==
    \/ \E name \in ListenerIds : add(name, "ACache")
    \/ listen_cnc
    \/ CncSend
    \/ \E id \in ListenerIds : Changed(id)
    \/ \E id \in ListenerIds : React(id)

\* the runtime runs a task that can go on
SpecCnc ==
    /\ ServerSpecInit
    /\ [][CncNext]_vars
    /\ \A id \in ListenerIds : WF_vars(Changed(id)) /\ WF_vars(React(id))

\* --------------------------------------------------------------- type check
TypeOK ==
    /\ available \in 0 .. (UsizeModulus - 1)
    /\ pool_size \in 0 .. MaxPoolSize
    /\ has_dead_con \in BOOLEAN
    /\ connections \in Seq(ConnIds)
    /\ guards \in [ConnIds -> Nat]
    /\ con \in [Callers -> ConnIds \cup {None}]
    /\ rpc \in {"load", "drop_all", "connect", "fetch_add", "clear"}
    /\ ri \in 0 .. MaxPoolSize
    /\ broken \subseteq ConnIds
    /\ nextId \in 1 .. (MaxConns + 1)

\* ------------------------------------------------------------------ claims
\* no pool operation stands between its queue mutation and its counter update
Quiescent ==
    /\ \A p \in Callers : pc[p] \notin {"fetch_sub", "release_fetch_add"}
    /\ rpc # "fetch_add"

\* C1: in every reachable state `available` is at most `pool_size`.
C1_AvailableAtMostPoolSize == available <= pool_size

\* C2: a guard is only ever created by a try_acquire whose connection answered
\* the PING of that call; a connection whose probe failed is open nowhere
\* after that step, and a dropped connection never comes back.
C2_GuardOnlyAfterPong ==
    [][ /\ \A c \in ConnIds : guards'[c] > guards[c] =>
              /\ \E p \in Callers : pc[p] = "probe" /\ con[p] = c /\ pc'[p] = "idle"
              /\ c \notin broken
              /\ returned' = Ret("Guard", 148)
        /\ \A p \in Callers, c \in ConnIds :
              (pc[p] = "probe" /\ pc'[p] = "idle" /\ con[p] = c /\ c \in broken) =>
                  ~IsOpen(c)'
        /\ \A c \in ConnIds : Closed(c) => Closed(c)'
      ]_vars

\* C2 witness: a probe has just failed and its connection is closed, while a
\* guard handed out after a successful probe is alive.
C2_Witness ==
    /\ returned = Ret("CannotConnect", 152)
    /\ \E c \in ConnIds : Closed(c) /\ c \in broken
    /\ \E c \in ConnIds : guards[c] = 1

\* C3: whenever no operation is between its queue mutation and its counter
\* update, `available` is the length of the queue.
C3_AvailableIsQueueLength == Quiescent => available = Len(connections)

\* C4: every connection is in at most one place: the queue, the probe of one
\* try_acquire, or one guard.
C4_ExclusiveOwnership == \A c \in ConnIds : Places(c) <= 1

\* C4 witness: one connection is under probe while another is held by a guard.
C4_Witness ==
    \E c, d \in ConnIds :
        /\ c # d
        /\ guards[c] = 1
        /\ \E p \in Callers : pc[p] = "probe" /\ con[p] = d

\* C5: a step that drops a guard appends the guard's connection to the back of
\* the queue and takes the guard away, and the step that ends the release
\* adds one to `available` and leaves the queue alone.
C5_ReleaseReturnsOnce ==
    [][ /\ \A c \in ConnIds : guards'[c] < guards[c] =>
              /\ guards'[c] = guards[c] - 1
              /\ connections' = Append(connections, c)
              /\ available' = available
              /\ \E p \in Callers : pc[p] = "idle" /\ pc'[p] = "release_fetch_add"
        /\ \A p \in Callers :
              (pc[p] = "release_fetch_add" /\ pc'[p] # "release_fetch_add") =>
                  /\ available' = (available + 1) % UsizeModulus
                  /\ connections' = connections
                  /\ pc'[p] = "idle"
      ]_vars

\* C5 witness: a release has pushed its connection behind one that was queued
\* and is about to add one to `available`.
C5_Witness ==
    /\ Len(connections) = 2
    /\ \E p \in Callers : pc[p] = "release_fetch_add"

\* C6: when a command on a guard has returned an error and the guard is
\* dropped, the step that drops it does not put the connection into the queue.
C6_ErroredConnectionNotRequeued ==
    [][ \A c \in ConnIds :
          ( /\ returned \in {CommandRet("IoError", 316, c),
                              CommandRet("StringParseError", 316, c)}
            /\ guards'[c] < guards[c] ) =>
              c \notin InQueue(connections')
      ]_vars

\* C7: a step in which a command returns an I/O error leaves the dead-marker
\* set.
C7_IoErrorSetsDeadMarker ==
    [][ \A c \in ConnIds :
          returned' = CommandRet("IoError", 316, c) => has_dead_con' ]_vars

\* C8: a step in which acquire returns TimeoutGettingConnection hands out no
\* guard and loses nothing: the connection the cancelled try_acquire had
\* popped is in the queue, and it is counted in `available`.
C8_TimeoutLosesNothing ==
    [][ returned' = Ret("TimeoutGettingConnection", 113) =>
          /\ guards' = guards
          /\ \A p \in Callers :
                (pc[p] = "probe" /\ pc'[p] = "idle") =>
                    /\ con[p] \in InQueue(connections')
                    /\ available' = (available + 1) % UsizeModulus
      ]_vars

\* C9: a try_acquire that starts while the dead-marker is set returns
\* NoConnectionAvailable and leaves the queue, the counters, the guards and
\* every task's position and popped connection as they were; while the marker
\* is set no idle task gets to the load of `available` or pops a connection.
C9_DeadMarkerGates ==
    [][ /\ \A p \in Callers : (has_dead_con /\ TryAcquire(p)) =>
              /\ returned' = Ret("NoConnectionAvailable", 133)
              /\ UNCHANGED <<available, pool_size, has_dead_con, connections,
                             guards, pc, con>>
        /\ \A p \in Callers : (has_dead_con /\ pc[p] = "idle") =>
              /\ pc'[p] \in {"idle", "release_fetch_add"}
              /\ con'[p] = None
        /\ returned' = Ret("NoConnectionAvailable", 133) =>
              /\ has_dead_con
              /\ UNCHANGED <<available, connections, guards, pc, con>>
      ]_vars

\* C9 witness: a try_acquire has just been turned away by the dead-marker
\* although a connection is queued and counted.
C9_Witness ==
    /\ has_dead_con
    /\ returned = Ret("NoConnectionAvailable", 133)
    /\ connections # <<>>
    /\ available > 0

\* C10: try_acquire pops the front connection and subtracts one from
\* `available`; when the probe of that connection fails the step sets the
\* dead-marker, returns CannotConnect and leaves the connection open nowhere
\* (the queue and `available` stay one lower); when it succeeds the step
\* returns a guard around that connection and leaves the dead-marker alone.
C10_ProbeOutcome ==
    [][ \A p \in Callers, c \in ConnIds :
          /\ (pc[p] = "pop_front" /\ pc'[p] # "pop_front" /\ connections # <<>>) =>
                /\ con'[p] = Head(connections)
                /\ connections' = Tail(connections)
          /\ (pc[p] = "fetch_sub" /\ pc'[p] # "fetch_sub") =>
                /\ available' = (available - 1) % UsizeModulus
                /\ connections' = connections
          /\ (pc[p] = "probe" /\ pc'[p] = "idle" /\ con[p] = c
                /\ returned' # Ret("TimeoutGettingConnection", 113)) =>
                /\ connections' = connections
                /\ available' = available
                /\ IF c \in broken
                     THEN /\ has_dead_con'
                          /\ returned' = Ret("CannotConnect", 152)
                          /\ ~IsOpen(c)'
                          /\ guards' = guards
                     ELSE /\ has_dead_con' = has_dead_con
                          /\ returned' = Ret("Guard", 148)
                          /\ guards' = [guards EXCEPT ![c] = @ + 1]
      ]_vars

\* C10 witness: the probe of the popped connection has just failed: the
\* dead-marker is set, and queue and counter are one below the pool size.
C10_Witness ==
    /\ returned = Ret("CannotConnect", 152)
    /\ has_dead_con
    /\ pool_size = 2
    /\ Len(connections) = 1
    /\ available = 1

\* C11: a reconnect pass that found the dead-marker set empties the queue and
\* leaves `available` at zero; every open that succeeds appends the new
\* connection to the back of the queue and then adds one to `available`, an
\* open that fails changes neither; there are pool_size opens; the pass ends
\* by clearing the dead-marker.
C11_ReconnectPass ==
    [][ /\ (rpc = "drop_all" /\ rpc' # "drop_all") =>
              /\ connections' = <<>>
              /\ available' = 0
              /\ ri' = pool_size
        /\ (rpc = "connect" /\ rpc' = "fetch_add") =>
              /\ Len(connections') = Len(connections) + 1
              /\ SubSeq(connections', 1, Len(connections)) = connections
              /\ ~IsOpen(connections'[Len(connections')])
              /\ available' = available
        /\ (rpc = "fetch_add" /\ rpc' # "fetch_add") =>
              /\ available' = (available + 1) % UsizeModulus
              /\ connections' = connections
              /\ ri' = ri - 1
        /\ (rpc = "connect" /\ rpc' \notin {"connect", "fetch_add"}) =>
              /\ connections' = connections
              /\ available' = available
        /\ (rpc = "connect" /\ rpc' = "connect" /\ ri' # ri) =>
              /\ connections' = connections
              /\ available' = available
              /\ ri' = ri - 1
        /\ (rpc \in {"connect", "fetch_add"} /\ rpc' = "clear") => ri' = 0
        /\ (rpc = "clear" /\ rpc' = "load") => ~has_dead_con'
      ]_vars

\* every guard has been dropped and no task is inside a pool operation
AllReleased ==
    /\ \A c \in ConnIds : guards[c] = 0
    /\ \A p \in Callers : pc[p] = "idle"

\* C12: once the dead-marker is set, if the server stays reachable and from
\* some point on every guard is released and the callers are at rest, the
\* pool eventually has the dead-marker clear and `available` equal to
\* pool_size.
C12_SteadyStateAfterFault ==
    [](has_dead_con =>
          (<>[]AllReleased => <>(~has_dead_con /\ available = pool_size)))

C14_ScaleDownRejects ==
    [][ \A p \in Callers, k \in 0 .. MaxConns :
          /\ returned' = ScaleRet("NotEnoughConnectionsInPool", 169, k) =>
                /\ k > pool_size
                /\ UNCHANGED <<available, pool_size, connections, guards, pc>>
          /\ returned' = ScaleRet("NotEnoughConnectionsAvailable", 171, k) =>
                /\ k > available
                /\ UNCHANGED <<available, pool_size, connections, guards>>
          /\ (pc[p] = "idle" /\ pc'[p] = "scale_down_available"
                /\ scale_count'[p] = k) =>
                /\ k <= pool_size
                /\ UNCHANGED <<available, pool_size, connections>>
          /\ (pc[p] = "scale_down_available" /\ scale_count[p] = k
                /\ pc'[p] # "scale_down_available") =>
                /\ UNCHANGED <<available, pool_size, connections>>
                /\ IF k > available
                     THEN /\ returned' = ScaleRet("NotEnoughConnectionsAvailable",
                                                   171, k)
                          /\ pc'[p] = "idle"
                     ELSE pc'[p] = "scale_down_sub_pool_size"
      ]_vars

\* C14 witness: with a pool of two and one guard held, scale_down(2) has just
\* returned NotEnoughConnectionsAvailable.
C14_Witness ==
    /\ returned = ScaleRet("NotEnoughConnectionsAvailable", 171, 2)
    /\ pool_size = 2
    /\ available = 1
    /\ \E c \in ConnIds : guards[c] = 1

\* C15: a scale_down(k) that passed both checks subtracts k from pool_size
\* and from `available` (neither wraps) and its drop closes exactly the k
\* connections at the front of the queue.
C15_ScaleDownRemoves ==
    [][ \A p \in Callers, k \in 0 .. MaxConns :
          /\ (pc[p] = "scale_down_sub_pool_size" /\ scale_count[p] = k
                /\ pc'[p] # "scale_down_sub_pool_size") =>
                /\ pool_size' = pool_size - k
                /\ UNCHANGED <<available, connections>>
          /\ (pc[p] = "scale_down_sub_available" /\ scale_count[p] = k
                /\ pc'[p] # "scale_down_sub_available") =>
                /\ available' = available - k
                /\ UNCHANGED <<pool_size, connections>>
          /\ (pc[p] = "scale_down_drop" /\ scale_count[p] = k
                /\ pc'[p] # "scale_down_drop") =>
                /\ Len(connections) >= k
                /\ connections' = SubSeq(connections, k + 1, Len(connections))
                /\ \A i \in 1 .. k : \A c \in ConnIds :
                      connections[i] = c => ~IsOpen(c)'
                /\ UNCHANGED <<available, pool_size>>
                /\ returned' = ScaleRet("Ok", 177, k)
      ]_vars

\* C16: a scale_up(k) leaves the pool alone while it opens its connections;
\* when all k are open it appends them to the back of the queue, then adds k
\* to pool_size, then adds k to `available` and returns Ok; when an open
\* fails it returns the error with pool_size, `available` and the queue as
\* they were and every connection it had opened closed.
C16_ScaleUpAllOrNothing ==
    [][ \A p \in Callers, k \in 0 .. MaxConns :
          /\ (pc[p] = "scale_up_connect" /\ scale_count[p] = k
                /\ (pc'[p] # pc[p] \/ opened'[p] # opened[p])) =>
                /\ UNCHANGED <<available, pool_size, connections>>
                /\ pc'[p] = "scale_up_extend" => Len(opened'[p]) = k
                /\ pc'[p] = "idle" =>
                      /\ returned' = Ret("CannotConnect", 154)
                      /\ \A c \in ConnIds :
                            (\E i \in 1 .. Len(opened[p]) : opened[p][i] = c)
                               => ~IsOpen(c)'
          /\ returned' = Ret("CannotConnect", 154) =>
                UNCHANGED <<available, pool_size, connections, guards>>
          /\ (pc[p] = "scale_up_extend" /\ scale_count[p] = k
                /\ pc'[p] # "scale_up_extend") =>
                /\ Len(opened[p]) = k
                /\ connections' = connections \o opened[p]
                /\ \A i \in 1 .. k : \A c \in ConnIds :
                      opened[p][i] = c => c \notin InQueue(connections)
                /\ UNCHANGED <<available, pool_size>>
          /\ (pc[p] = "scale_up_pool_size" /\ scale_count[p] = k
                /\ pc'[p] # "scale_up_pool_size") =>
                /\ pool_size' = (pool_size + k) % UsizeModulus
                /\ UNCHANGED <<available, connections>>
          /\ (pc[p] = "scale_up_available" /\ scale_count[p] = k
                /\ pc'[p] # "scale_up_available") =>
                /\ available' = (available + k) % UsizeModulus
                /\ UNCHANGED <<pool_size, connections>>
                /\ returned' = Ret("Ok", 161)
      ]_vars

\* C16 witness: a scale_up has just failed after it had opened a connection,
\* which is closed again.
C16_Witness ==
    /\ returned = Ret("CannotConnect", 154)
    /\ \E c \in ConnIds : Closed(c)

\* the connection's task takes a byte off its socket as the opcode of the
\* next request (the client only adds bytes)
OpcodeRead ==
    /\ spc = "read_cmd"
    /\ Len(rbuf') + Len(wire') < Len(rbuf) + Len(wire)

\* C17: when the opcode byte the server reads is 0xFE it sends exactly the
\* one byte 0xFF, flushed (nothing stays in the write buffer), reads no
\* namespace byte, changes neither cache nor control channel, and stands
\* before the next opcode again with the connection open; a Ping that is
\* alone on the socket leaves the socket empty.
C17_PingAnswered ==
    [][ (OpcodeRead /\ (rbuf \o wire)[1] = 254) =>
          /\ reply' = reply \o <<255>>
          /\ wbuf' = <<>>
          /\ spc' = "read_cmd"
          /\ UNCHANGED <<cache, store, signals>>
          /\ Len(wire) = 1 => wire' = <<>>
      ]_vars

\* C17 witness: the second request of the connection is a Ping that follows
\* a completed command on namespace A, and its Pong waits for the client.
C17_Witness ==
    /\ sent = 2
    /\ cpc = "ping"
    /\ cmd = "Ping"
    /\ cache = CacheNameInto("A")
    /\ reply = <<255>>
    /\ spc = "read_cmd"
    /\ wire = <<>>

\* C18: an opcode is read only while nothing written waits in the write
\* buffer; a handler that was entered is left only towards the flush (or the
\* end of the task), the flush hands the client everything the handler wrote
\* and only then the loop stands before the next opcode; what the client is
\* sent is only ever appended, so replies arrive in the order of the requests.
C18_SequentialLoop ==
    [][ /\ OpcodeRead => wbuf = <<>>
        /\ (spc = "handle" /\ spc' # "handle") => spc' \in {"flush", "closed"}
        /\ (spc = "flush" /\ spc' # "flush") =>
              /\ spc' = "read_cmd"
              /\ reply' = reply \o wbuf
              /\ wbuf' = <<>>
        /\ (spc # "read_cmd" /\ spc' = "read_cmd") => spc = "flush"
        /\ (reply' # reply /\ cpc' = cpc) =>
              \E n \in 1 .. 16 :
                  /\ Len(reply') = Len(reply) + n
                  /\ SubSeq(reply', 1, Len(reply)) = reply
      ]_vars

\* C18 witness: the opcode of the connection's second request has been read
\* after the reply to the first one, a Get on namespace A, went out whole.
C18_Witness ==
    /\ sent = 2
    /\ spc = "read_cache"
    /\ cache = CacheNameInto("A")
    /\ cmd = "Get"
    /\ cpc = "get"
    /\ wbuf = <<>>
    /\ reply = <<>>

\* C19: when the handler of the registered namespace A returns, it has
\* written the reply of the command table: Option<V> for Get, the
\* length-prefixed sequence of keys for Keys, the status byte 0x00 for Set.
C19_EveryRequestAnswered ==
    [][ (spc = "handle" /\ cache = CacheNameInto("A") /\ spc' = "flush") =>
          /\ cmd = "Get" => wbuf' = wbuf \o OptionWrite(get(FromU32(Read(4))))
          /\ cmd = "Set" => wbuf' = wbuf \o <<0>>
          /\ cmd = "Keys" =>
                \E ks \in Orders(DOMAIN store) :
                    wbuf' = wbuf \o U32(AsU32(Len(ks))) \o WriteEach(ks)
      ]_vars

\* C20: when the namespace byte that is read names no registered namespace,
\* the task ends (no opcode is read from the connection any more) and no
\* handler has run: cache, control channel and write buffer are untouched.
C20_UnknownNamespaceDropsConnection ==
    [][ (spc = "read_cache" /\ spc' # "read_cache" /\ cache' \notin entries) =>
          /\ spc' = "closed"
          /\ UNCHANGED <<store, signals, wbuf, reply>>
      ]_vars

\* C21: once the opcode byte of a request decoded to no request command
\* (0x7A decodes to Pong), the connection's task serves nothing and does not
\* go on to the next request: no signal is sent, the cache is not touched and
\* the loop does not reach its flush; and a command the namespace's handler
\* does not know (Save on ACache) ends the task.
C21_BadRequestEndsConnection ==
    [][ /\ (cmd = "Pong" /\ spc \in {"read_cache", "handle"}) =>
              /\ spc' # "flush"
              /\ UNCHANGED <<signals, store>>
        /\ (spc = "handle" /\ cache = CacheNameInto("A") /\ spc' # spc
              /\ cmd \notin {"Get", "Keys", "Set"}) => spc' = "closed"
      ]_vars

\* C22: whatever was added, id 255 is registered and maps to the control
\* namespace that Server::new created.
C22_ControlNamespaceKept ==
    /\ 255 \in DOMAIN registry
    /\ registry[255] = "CommandAndControl"

\* C23: the handler of a request to namespace 255 sends exactly one signal on
\* the control channel and writes the one byte of an empty message (0x00) as
\* the reply, which the flush that follows hands to the connection.
C23_ControlRequestReplied ==
    [][ (spc = "handle" /\ cache = 255 /\ spc' # spc) =>
          /\ signals' = signals + 1
          /\ wbuf' = wbuf \o <<0>>
          /\ spc' = "flush"
      ]_vars

\* C24: the signal sent for a request to namespace 255 carries the command
\* of that request (Save for a Save request).
C24_SignalCarriesOpcode ==
    [][ (spc = "handle" /\ cache = 255 /\ spc' # spc) => watch' = cmd ]_vars

\* C25: a command dispatched with a namespace id acts on the namespace
\* registered under that id only: the entries of ACache (namespace 0) change
\* only in the handler of a request to namespace 0, and the control channel
\* of namespace 255 changes only in the handler of a request to namespace 255.
C25_NamespaceIsolation ==
    [][ /\ store' # store => (spc = "handle" /\ cache = CacheNameInto("A"))
        /\ <<signals, watch>>' # <<signals, watch>> =>
               (spc = "handle" /\ cache = 255)
        /\ (spc = "handle" /\ cache = CacheNameInto("A")) =>
               UNCHANGED <<signals, watch>>
        /\ (spc = "handle" /\ cache = 255) => UNCHANGED store
      ]_vars

\* both namespaces have served a command that changed their state
C25_Witness ==
    /\ store # ACacheNew
    /\ signals = 1
    /\ spc = "read_cmd"

\* C26: Command::from maps the bytes 0..9 to Get, MGet, Keys, Exists,
\* MExists, Set, MSet, Del, MDel, Save, the byte 254 to Ping and every other
\* byte to Pong; u8::from is its inverse on the twelve commands, so that a
\* command written as its byte and read back is the same command.
C26_OpcodeMapping ==
    [][ (decoded'.t = "Command" /\ decoded'.state = "ok" /\ Len(buf') < Len(buf)) =>
          LET x == buf[1]
              name == CASE x = 0 -> "Get"     [] x = 1 -> "MGet"
                        [] x = 2 -> "Keys"    [] x = 3 -> "Exists"
                        [] x = 4 -> "MExists" [] x = 5 -> "Set"
                        [] x = 6 -> "MSet"    [] x = 7 -> "Del"
                        [] x = 8 -> "MDel"    [] x = 9 -> "Save"
                        [] x = 254 -> "Ping"  [] OTHER -> "Pong"
          IN  /\ decoded'.val = name
              /\ (Len(value) > 0 /\ decoded.state = "none") =>
                    /\ Head(value).bytes = <<x>>
                    /\ x \in (0 .. 9) \cup {254, 255}
                    /\ decoded'.val = Head(value).v
      ]_vars

\* Pong and Ping were written as their bytes and Pong was read back
C26_Witness ==
    /\ decoded.t = "Command" /\ decoded.state = "ok"
    /\ decoded.input = <<255, 254>>
    /\ decoded.val = "Pong"
    /\ buf = <<254>>

\* C27: for every type with a codec in wrapper.rs and for the derived
\* codecs, reading the bytes that write has produced gives the value that
\* was written and consumes exactly those bytes, so that of two values
\* written one after the other each is read back in its turn.
C27_RoundTrip ==
    [][ (/\ Len(value) > 0 /\ Len(value') < Len(value)
         /\ Head(value).t \notin {"utils::String", "Command"}) =>
          /\ decoded'.state = "ok"
          /\ decoded'.val = Head(value).v
          /\ buf' = SubSeq(buf, Len(Head(value).bytes) + 1, Len(buf))
      ]_vars

\* C28: a String is written as its UTF-8 bytes and one byte 0x00; reading
\* bytes that hold a 0x00 consumes them up to and with the first 0x00 and
\* gives the bytes before it as the value, or an error that is returned
\* when these bytes are no UTF-8.
C28_StringCodec ==
    /\ \A i \in 1 .. Len(value) :
          value[i].t \in {"String", "utils::String"} =>
              value[i].bytes = value[i].v \o <<0>>
    /\ (/\ decoded.t \in {"String", "utils::String"}
        /\ \E i \in 1 .. Len(decoded.input) : decoded.input[i] = 0) =>
          LET in == decoded.input
              z == CHOOSE i \in 1 .. Len(in) :
                       in[i] = 0 /\ \A j \in 1 .. i - 1 : in[j] # 0
              before == SubSeq(in, 1, z - 1)
          IN  /\ buf = SubSeq(in, z + 1, Len(in))
              /\ IF from_utf8(before)
                 THEN decoded.state = "ok" /\ decoded.val = before
                 ELSE decoded.state = "err"

\* C29: reading a map whose pairs are all there gives the map of these
\* pairs whatever their order, and an error that is returned when two of
\* the pairs have the same key.
C29_MapDuplicateKeys ==
    (decoded.t = "HashMap" /\ Len(decoded.input) >= 4) =>
        LET in == decoded.input
            n == FromU32(SubSeq(in, 1, 4))[2]
            key(i) == in[3 + 2 * i]
        IN  (FromU32(SubSeq(in, 1, 4))[1] = 0 /\ Len(in) >= 4 + 2 * n) =>
                IF \E i, j \in 1 .. n : i < j /\ key(i) = key(j)
                THEN decoded.state = "err"
                ELSE /\ decoded.state = "ok"
                     /\ decoded.val = [k \in {key(i) : i \in 1 .. n} |->
                            in[4 + 2 * (CHOOSE i \in 1 .. n : key(i) = k)]]

\* C30: reading a derived enum from bytes whose first byte is the index of
\* no variant gives an error that is returned to the caller.
C30_TagOutOfRange ==
    (/\ decoded.t = "Example11" /\ Len(decoded.input) >= 1
     /\ decoded.input[1] \notin 0 .. 2) => decoded.state = "err"

\* C31: reading from bytes that end before the value is complete gives an
\* error that is returned: a String read from bytes without a 0x00, and a
\* Vec whose count is larger than the number of elements that follow.
C31_TruncatedStreamFails ==
    /\ (/\ decoded.t = "String"
        /\ \A i \in 1 .. Len(decoded.input) : decoded.input[i] # 0) =>
            decoded.state = "err"
    /\ (/\ decoded.t = "Vec" /\ Len(decoded.input) >= 4
        /\ \/ FromU32(SubSeq(decoded.input, 1, 4))[1] # 0
           \/ FromU32(SubSeq(decoded.input, 1, 4))[2] > Len(decoded.input) - 4) =>
            decoded.state = "err"

C33_UnhealthyMarksDead ==
    [][ \A p \in Callers : (pc[p] = "probe" /\ pc'[p] = "idle") =>
          \E c \in ConnIds :
             /\ c = con[p]
             /\ IF returned'.val = "Guard"
                THEN c \notin broken /\ guards'[c] = guards[c] + 1
                ELSE /\ returned'.val = "CannotConnect" => c \in broken
                     /\ has_dead_con'
                     /\ ~IsOpen(c)'
      ]_vars

\* C34: a derived struct without fields is written as the one byte 0x00, and
\* reading it consumes one byte, whatever its value.
C34_UnitStructOneByte ==
    /\ \A i \in 1 .. Len(value) :
          value[i].t = "Example1" => value[i].bytes = <<0>>
    /\ (decoded.t = "Example1" /\ Len(decoded.input) >= 1) =>
          /\ decoded.state = "ok"
          /\ decoded.val = "Example1"
          /\ buf = Tail(decoded.input)

\* Example1 was written twice and read back once; and a byte that is not 0
\* was read as Example1
C34_Witness ==
    /\ decoded.t = "Example1" /\ decoded.state = "ok"
    /\ \/ /\ Len(value) = 1 /\ value[1].t = "Example1"
          /\ decoded.input = <<0, 0>> /\ buf = <<0>>
       \/ decoded.input = <<255>> /\ buf = <<>>

\* C35: a derived enum is written as the 0-based index of the variant in one
\* byte, followed by the bytes of its field or, for a variant without a
\* field, by one byte 0x00; reading these bytes gives the variant back.
\* Example11::Ok(Example2(1234)) is the bytes 0, 0, 0, 4, 210.
C35_EnumTagAndPayload ==
    [][ (/\ decoded.state = "none" /\ Len(value) > 0
         /\ Head(value).t = "Example11" /\ Len(value') < Len(value)) =>
          LET x == Head(value)
              field == x.v[2]
              payload ==
                  IF x.v[1] = 0 THEN U32(field[1])
                  ELSE IF x.v[1] = 1
                       THEN U32(AsU32(Len(field))) \o
                            (IF Len(field) = 0 THEN <<>>
                             ELSE IF Len(field) = 1 THEN U32(field[1])
                             ELSE U32(field[1]) \o U32(field[2]))
                  ELSE <<0>>
          IN  /\ x.bytes = <<x.v[1]>> \o payload
              /\ x.v = <<0, <<AsU32(1234)>>>> => x.bytes = <<0, 0, 0, 4, 210>>
              /\ decoded'.state = "ok"
              /\ decoded'.val = x.v
              /\ buf' = SubSeq(buf, Len(x.bytes) + 1, Len(buf))
      ]_vars

\* Example11::Ok(Example2(1234)) was read back from its five bytes
C35_Witness ==
    /\ decoded.t = "Example11" /\ decoded.state = "ok"
    /\ decoded.input = <<0, 0, 0, 4, 210>>
    /\ decoded.val = <<0, <<AsU32(1234)>>>>
    /\ buf = <<>>

\* C36: when more try_acquire calls have passed the load of `available` than
\* connections are queued, no connection is handed to two of them, and a
\* call whose pop found the queue empty returns NoConnectionAvailable with
\* `available` not wrapped below zero and, once no call is under way, equal
\* to the length of the queue.
C36_RaceKeepsCounter ==
    [][ \A p \in Callers :
          (pc[p] = "fetch_sub" /\ pc'[p] # "fetch_sub" /\ con[p] = None) =>
              /\ returned'.val = "NoConnectionAvailable"
              /\ \A c \in ConnIds : Places(c)' <= 1
              /\ available' <= available
              /\ Quiescent' => available' = Len(connections')
      ]_vars

\* C37: the dead-marker is cleared only at the end of an iteration of the
\* reconnect task whose load found it set, that is after the queue was
\* dropped and the connections were opened again; a marker that try_acquire
\* sets after the load of an iteration found it clear stays set.
C37_ClearedOnlyAfterReconnect ==
    [][ (has_dead_con /\ ~has_dead_con') => (rpc = "clear" /\ dead) ]_vars

\* C38: listen_cnc spawns one listener for every namespace that is
\* registered when it is called; every signal sent on the control channel
\* is followed by each listener of a cache waking up, reacting and waiting
\* again, also when the signal was sent while the listener reacted to the
\* one before.
C38_ControlFanOut ==
    /\ [][ DOMAIN listeners' # DOMAIN listeners =>
              DOMAIN listeners' = DOMAIN registry ]_vars
    /\ \A id \in ListenerIds : \A n \in 1 .. MaxSignals :
          [](  (id \in DOMAIN listeners /\ signals = n) =>
               <>(/\ id \in DOMAIN listeners
                  /\ listeners[id].pc = "changed"
                  /\ listeners[id].reacted >= n))

\* a signal was sent while the listener of namespace 0 reacts to the first
C38_Witness ==
    /\ 0 \in DOMAIN listeners
    /\ listeners[0].pc = "react" /\ listeners[0].seen = 1
    /\ signals = 2


\* C39: when a try_acquire or a second scale_down runs between the checks
\* of a scale_down(k) and its drop, the scale_down that returns Ok still
\* takes exactly k connections out of the queue, the number it subtracted
\* from the counters, and neither pool_size nor `available` wraps below
\* zero.
C39_ScaleDownUnderRace ==
    [][ /\ \A p \in Callers :
              (pc[p] = "scale_down_drop" /\ pc'[p] = "idle") =>
                 Len(connections) - Len(connections') = scale_count[p]
        /\ NotWrapped => NotWrapped'
      ]_vars


\* C40: in the v2 pool, whenever no pool operation is in progress (every
\* task is between its calls and the reconnect task is between its passes),
\* `available` plus dead_con plus the number of guards that are out equals
\* pool_size, and `available` equals the length of the queue.
C40_V2Conservation ==
    LET Outstanding ==
            Cardinality({g \in ConnIds \X (1 .. NumCallers + MaxConns) :
                            g[2] <= guards[g[1]]})
    IN  (/\ \A p \in Callers : pc[p] = "idle"
         /\ rpc = "load") =>
            /\ available + dead_con + Outstanding = pool_size
            /\ available = Len(connections)


============================================================================
